---------------------------- MODULE Spec2Model ----------------------------
(***************************************************************************)
(* Belt-stage aggregation of static/js/dashboard.js: the stage functions   *)
(* of the two front ends, AirportDashboard and StaffPortal, the alert      *)
(* filter and the alerts widget, the polling of both classes with the      *)
(* dataset recovery of the dashboard, and the animation of the belts.      *)
(*                                                                         *)
(* JavaScript values are modelled as records [t, n]: t is the kind of the  *)
(* value and n its number where it has one.  Numbers that stand for belt   *)
(* positions are kept in units of 1/PosScale, so that a position strictly  *)
(* between two integers (24.5 for PosScale = 2) is a value of the model.   *)
(***************************************************************************)
EXTENDS Integers, Sequences, FiniteSets, TLC

VARIABLES beltStages, alertScopes, self, op, args, result, after,
          conveyorData, rendered, loading, loads, completed, lastRun,
          currentAirport, SP_conveyorData, SP_loads, SP_rendered,
          timers, animated, frames,
          data, banner, errorKeys, pending, settled, recoveryPc,
          content, chevron, header

vars == <<beltStages, alertScopes, self, op, args, result, after,
          conveyorData, rendered, loading, loads, completed, lastRun,
          currentAirport, SP_conveyorData, SP_loads, SP_rendered,
          timers, animated, frames,
          data, banner, errorKeys, pending, settled, recoveryPc,
          content, chevron, header>>

\* the fields of the instance
fields == <<beltStages, alertScopes, self>>

\* the call made on the instance: the method, its arguments, its completion,
\* and the arguments as the call leaves them
call == <<op, args, result, after>>

\* the conveyor snapshot kept and shown, the loading overlay, the
\* invocations of loadAllData, and what the one that ended last rendered
polling == <<conveyorData, rendered, loading, loads, completed, lastRun>>

\* the StaffPortal's airport on display, its conveyor snapshots by airport,
\* the invocations of loadAllAirportsData, and how its last
\* renderConveyorSystem ended
portal == <<currentAirport, SP_conveyorData, SP_loads, SP_rendered>>

\* the pending timeouts of animateConveyorBelts, the renders that reached
\* the animation step, and the runs of animateConveyorBelts from a timeout
animation == <<timers, animated, frames>>

\* a call of handleDatasetRecovery: the data object it was handed, the
\* error banner, its errorKeys, the re-fetches not yet settled, the settled
\* ones in the order they settled, and where the call is
recovery == <<data, banner, errorKeys, pending, settled, recoveryPc>>

\* the alerts widget: the element ai-alerts-content, its chevron, and the
\* badges of its header
panel == <<content, chevron, header>>

\* what the stage methods and the dashboard's polling leave alone
page == <<portal, animation, recovery, panel>>

(***************************************************************************)
(* Bounds of the model.                                                    *)
(***************************************************************************)
PosScale == 2      \* position units per 1.0
MaxOut == 5        \* how far below 0 and above 100 the positions reach
MaxBags == 2       \* bags on one belt
MaxBelts == 2      \* belts in one conveyor list
MaxCount == 3      \* largest count in a counts mapping handed in directly
MaxScopeLen == 2   \* scopes of one alert
MaxAlerts == 2     \* alerts in one list
MaxRun == 40       \* bags on a belt filled with bags of two positions
MaxLoads == 2      \* invocations of loadAllData, the one of init() included
MaxAirports == 2   \* airports of the StaffPortal's list that are loaded
MaxRefreshes == 1  \* invocations of loadAllAirportsData after the one of init()
MaxFrames == 1     \* runs of animateConveyorBelts started by a timeout
MaxChains == 4     \* animation chains beyond which no tab is opened
MaxKeys == 2       \* datasets with an endpoint that a response reports as failed

(***************************************************************************)
(* JavaScript values.                                                      *)
(***************************************************************************)
JSNumber(n) == [t |-> "number", n |-> n]
JSNaN == [t |-> "NaN", n |-> 0]
JSUndefined == [t |-> "undefined", n |-> 0]
JSNull == [t |-> "null", n |-> 0]
JSTrue == [t |-> "boolean", n |-> 1]
JSFalse == [t |-> "boolean", n |-> 0]
\* a string that reads as a number, such as "30"
JSNumericString(n) == [t |-> "numericString", n |-> n]
\* a string that does not, such as "abc"
JSText == [t |-> "string", n |-> 0]
\* a plain object, such as {}
JSObject == [t |-> "object", n |-> 0]

\* the absent stage id: the null that getStageForPosition and
\* getDominantStage return
NullId == "null"

\* ToNumber of a relational comparison against a number (ECMAScript
\* IsLessThan): null is 0, true is 1, false is 0, a numeric string its
\* number; undefined, NaN, other strings and plain objects are NaN.
ToNumberIsNaN(x) == x.t \in {"NaN", "undefined", "string", "object"}
ToNumber(x) == x.n

\* position >= bound and position < bound, the bound a stage's start or end
\* (a number).  Every comparison with NaN is false.
GreaterOrEqual(x, bound) == ~ToNumberIsNaN(x) /\ ToNumber(x) >= bound * PosScale
LessThan(x, bound) == ~ToNumberIsNaN(x) /\ ToNumber(x) < bound * PosScale

(***************************************************************************)
(* The stage tables.                                                       *)
(***************************************************************************)
Stage(id, start, end) == [id |-> id, start |-> start, end |-> end]

\* a table with a gap between its first two stages
ConstructorBeltStagesGapped ==
    << Stage("checking", 0, 25), Stage("sorting", 30, 50),
       Stage("security", 50, 75), Stage("boarding", 75, 100) >>

\* AirportDashboard.constructor and StaffPortal.constructor: this.beltStages
ConstructorBeltStages ==
    << Stage("checking", 0, 25), Stage("sorting", 25, 50),
       Stage("security", 50, 75), Stage("boarding", 75, 100) >>

JSArray(items) == [t |-> "array", items |-> items]
JSNoArray == [t |-> "undefined", items |-> << >>]

\* a getBeltStages that falls back to the constructor's table
getBeltStagesDefault(field) ==
    IF field.t = "array" /\ field.items # << >> THEN field.items ELSE ConstructorBeltStages

\* getBeltStages: this.beltStages || []
getBeltStages(field) == IF field.t = "array" THEN field.items ELSE << >>

\* SP_ names the StaffPortal copy of a method
SP_getBeltStages(field) == IF field.t = "array" THEN field.items ELSE << >>


(***************************************************************************)
(* Completions: a call returns a value or raises a TypeError.              *)
(***************************************************************************)
Return(v) == [thrown |-> FALSE, value |-> v]
Throw == [thrown |-> TRUE, value |-> "TypeError"]

(***************************************************************************)
(* Plain objects used as mappings (the counts): the sequence of their      *)
(* entries in insertion order, which is the order of Object.entries for    *)
(* keys that are not integer-like.                                         *)
(***************************************************************************)
Entry(key, val) == [key |-> key, val |-> val]

ObjHas(obj, key) == \E i \in 1..Len(obj) : obj[i].key = key

ObjGet(obj, key) == obj[CHOOSE i \in 1..Len(obj) : obj[i].key = key].val

\* obj[key] = val: an existing key keeps its place, a new one goes last
ObjPut(obj, key, val) ==
    IF ObjHas(obj, key)
    THEN [i \in 1..Len(obj) |-> IF obj[i].key = key THEN Entry(key, val) ELSE obj[i]]
    ELSE Append(obj, Entry(key, val))

\* counts[key] || 0
ObjGetOrZero(obj, key) == IF ObjHas(obj, key) THEN ObjGet(obj, key) ELSE 0

(***************************************************************************)
(* getStageForPosition                                                     *)
(***************************************************************************)
\* stages.find(stage => position >= stage.start && position < stage.end):
\* the index of the first stage from i on that matches, 0 when none does
RECURSIVE FindStage(_, _, _)
FindStage(stages, position, i) ==
    IF i > Len(stages) THEN 0
    ELSE IF GreaterOrEqual(position, stages[i].start) /\ LessThan(position, stages[i].end)
         THEN i
         ELSE FindStage(stages, position, i + 1)

\* a find that takes the interval closed on the right and open on the left
FindStageOpenLeft(stages, position, i) ==
    LET hit == { j \in i..Len(stages) :
                   /\ ~ToNumberIsNaN(position)
                   /\ ToNumber(position) > stages[j].start * PosScale
                   /\ ToNumber(position) <= stages[j].end * PosScale }
    IN IF hit = {} THEN 0 ELSE CHOOSE j \in hit : \A k \in hit : j <= k

\* no fallback: null when no stage matches
getStageForPositionNoFallback(field, position) ==
    LET stages == getBeltStages(field)
        found == FindStage(stages, position, 1)
    IN IF Len(stages) = 0 THEN NullId
       ELSE IF found # 0 THEN stages[found].id ELSE NullId

\* fallback to the first stage instead of the last
getStageForPositionFirstFallback(field, position) ==
    LET stages == getBeltStages(field)
        found == FindStage(stages, position, 1)
    IN IF Len(stages) = 0 THEN NullId
       ELSE IF found # 0 THEN stages[found].id ELSE stages[1].id

\* boundaries taken with > start and <= end
getStageForPositionOpenLeft(field, position) ==
    LET stages == getBeltStages(field)
        found == FindStageOpenLeft(stages, position, 1)
    IN IF Len(stages) = 0 THEN NullId
       ELSE IF found # 0 THEN stages[found].id ELSE stages[Len(stages)].id

getStageForPosition(field, position) ==
    LET stages == getBeltStages(field)
        found == FindStage(stages, position, 1)
    IN IF Len(stages) = 0 THEN NullId
       ELSE IF found # 0 THEN stages[found].id ELSE stages[Len(stages)].id

SP_getStageForPosition(field, position) ==
    LET stages == SP_getBeltStages(field)
        found == FindStage(stages, position, 1)
    IN IF Len(stages) = 0 THEN NullId
       ELSE IF found # 0 THEN stages[found].id ELSE stages[Len(stages)].id

(***************************************************************************)
(* calculateStageCounts                                                    *)
(***************************************************************************)
\* a belt: t is "object" for a belt object, "null" or "undefined" for an
\* absent one, "string" for a truthy primitive; bags_on_belt is an array of
\* bags or no array
Belt(bags) == [t |-> "object", bags_on_belt |-> bags]
NoBelt(t) == [t |-> t, bags_on_belt |-> JSNoArray]

\* a bag: an object with a position, or a null/undefined entry, or a
\* primitive (whose position reads as undefined)
Bag(position) == [t |-> "object", position |-> position]
NoBag(t) == [t |-> t, position |-> JSUndefined]

\* stages.reduce((acc, stage) => { acc[stage.id] = 0; return acc; }, {})
RECURSIVE ZeroCounts(_, _, _)
ZeroCounts(stages, i, acc) ==
    IF i > Len(stages) THEN acc
    ELSE ZeroCounts(stages, i + 1, ObjPut(acc, stages[i].id, 0))

\* !belt || !Array.isArray(belt.bags_on_belt)
BeltHasNoBagList(belt) ==
    \/ belt.t \in {"null", "undefined"}
    \/ belt.bags_on_belt.t # "array"

\* reading bag.position: a TypeError on null and undefined
ReadPositionThrows(bag) == bag.t \in {"null", "undefined"}
ReadPosition(bag) == IF bag.t = "object" THEN bag.position ELSE JSUndefined

\* stageId && typeof counts[stageId] === 'number'
Countable(counts, stageId) ==
    stageId # NullId /\ stageId # "" /\ ObjHas(counts, stageId)

\* belt.bags_on_belt.forEach(bag => ...) from bag i on
RECURSIVE CountBags(_, _, _, _)
CountBags(field, bags, i, counts) ==
    IF i > Len(bags) THEN Return(counts)
    ELSE IF ReadPositionThrows(bags[i]) THEN Throw
    ELSE LET stageId == getStageForPosition(field, ReadPosition(bags[i]))
         IN IF Countable(counts, stageId)
            THEN CountBags(field, bags, i + 1,
                    ObjPut(counts, stageId, ObjGet(counts, stageId) + 1))
            ELSE CountBags(field, bags, i + 1, counts)

RECURSIVE SP_CountBags(_, _, _, _)
SP_CountBags(field, bags, i, counts) ==
    IF i > Len(bags) THEN Return(counts)
    ELSE IF ReadPositionThrows(bags[i]) THEN Throw
    ELSE LET stageId == SP_getStageForPosition(field, ReadPosition(bags[i]))
         IN IF Countable(counts, stageId)
            THEN SP_CountBags(field, bags, i + 1,
                    ObjPut(counts, stageId, ObjGet(counts, stageId) + 1))
            ELSE SP_CountBags(field, bags, i + 1, counts)

\* the early return made before the counts are zero-filled: an absent belt
\* gets the empty mapping
calculateStageCountsNoZeroInit(field, belt) ==
    LET counts == ZeroCounts(getBeltStages(field), 1, << >>)
    IN IF BeltHasNoBagList(belt) THEN Return(<< >>)
       ELSE CountBags(field, belt.bags_on_belt.items, 1, counts)

\* the guard without its !belt test: belt.bags_on_belt is read on an
\* absent belt
calculateStageCountsNoBeltTest(field, belt) ==
    LET counts == ZeroCounts(getBeltStages(field), 1, << >>)
    IN IF belt.t \in {"null", "undefined"} THEN Throw
       ELSE IF belt.bags_on_belt.t # "array" THEN Return(counts)
       ELSE CountBags(field, belt.bags_on_belt.items, 1, counts)

\* the count that leaves out the bag at the head of the list
calculateStageCountsSkipFirst(field, belt) ==
    LET counts == ZeroCounts(getBeltStages(field), 1, << >>)
    IN IF BeltHasNoBagList(belt) THEN Return(counts)
       ELSE CountBags(field, belt.bags_on_belt.items, 2, counts)

calculateStageCounts(field, belt) ==
    LET counts == ZeroCounts(getBeltStages(field), 1, << >>)
    IN IF BeltHasNoBagList(belt) THEN Return(counts)
       ELSE CountBags(field, belt.bags_on_belt.items, 1, counts)

SP_calculateStageCounts(field, belt) ==
    LET counts == ZeroCounts(SP_getBeltStages(field), 1, << >>)
    IN IF BeltHasNoBagList(belt) THEN Return(counts)
       ELSE SP_CountBags(field, belt.bags_on_belt.items, 1, counts)

(***************************************************************************)
(* getStageFlowState                                                       *)
(***************************************************************************)
\* count === 0: a number that is zero (undefined, the count of a stage the
\* mapping lacks, is not)
StrictlyZero(count) == count.t = "number" /\ count.n = 0

\* the load tested before the count
getStageFlowStateLoadFirst(loadPercent, count) ==
    IF loadPercent >= 60 THEN "Congested"
    ELSE IF StrictlyZero(count) THEN "Idle"
    ELSE IF loadPercent >= 30 THEN "Flowing"
    ELSE "Clearing"

\* Congested from half the belt's bags on
getStageFlowStateHalf(loadPercent, count) ==
    IF StrictlyZero(count) THEN "Idle"
    ELSE IF loadPercent >= 50 THEN "Congested"
    ELSE IF loadPercent >= 30 THEN "Flowing"
    ELSE "Clearing"

getStageFlowState(loadPercent, count) ==
    IF StrictlyZero(count) THEN "Idle"
    ELSE IF loadPercent >= 60 THEN "Congested"
    ELSE IF loadPercent >= 30 THEN "Flowing"
    ELSE "Clearing"

SP_getStageFlowState(loadPercent, count) ==
    IF StrictlyZero(count) THEN "Idle"
    ELSE IF loadPercent >= 60 THEN "Congested"
    ELSE IF loadPercent >= 30 THEN "Flowing"
    ELSE "Clearing"

(***************************************************************************)
(* getDominantStage                                                        *)
(***************************************************************************)
\* a counts argument: an object with its entries, or null/undefined
CountsObject(entries) == [t |-> "object", entries |-> entries]
NoCounts(t) == [t |-> t, entries |-> << >>]

\* Object.entries(counts || {})
EntriesOf(counts) == IF counts.t = "object" THEN counts.entries ELSE << >>

\* entries.forEach(([stageId, count]) => { if (count > maxCount) ... })
\* from entry i on, with the running dominantStage and maxCount
RECURSIVE DominantFrom(_, _, _, _)
DominantFrom(entries, i, dominantStage, maxCount) ==
    IF i > Len(entries) THEN dominantStage
    ELSE IF entries[i].val > maxCount
         THEN DominantFrom(entries, i + 1, entries[i].key, entries[i].val)
         ELSE DominantFrom(entries, i + 1, dominantStage, maxCount)

\* the same loop with >= for >
RECURSIVE DominantFromGeq(_, _, _, _)
DominantFromGeq(entries, i, dominantStage, maxCount) ==
    IF i > Len(entries) THEN dominantStage
    ELSE IF entries[i].val >= maxCount
         THEN DominantFromGeq(entries, i + 1, entries[i].key, entries[i].val)
         ELSE DominantFromGeq(entries, i + 1, dominantStage, maxCount)

getDominantStageGeq(counts) ==
    LET entries == EntriesOf(counts)
    IN IF Len(entries) = 0 THEN NullId
       ELSE DominantFromGeq(entries, 1, entries[1].key, entries[1].val)

getDominantStage(counts) ==
    LET entries == EntriesOf(counts)
    IN IF Len(entries) = 0 THEN NullId
       ELSE DominantFrom(entries, 1, entries[1].key, entries[1].val)

SP_getDominantStage(counts) ==
    LET entries == EntriesOf(counts)
    IN IF Len(entries) = 0 THEN NullId
       ELSE DominantFrom(entries, 1, entries[1].key, entries[1].val)

(***************************************************************************)
(* aggregateStageCounts (AirportDashboard only)                            *)
(***************************************************************************)
\* stages.forEach(stage => { totals[stage.id] += counts[stage.id] || 0; })
RECURSIVE AddCounts(_, _, _, _)
AddCounts(stages, i, totals, counts) ==
    IF i > Len(stages) THEN totals
    ELSE AddCounts(stages, i + 1,
            ObjPut(totals, stages[i].id,
                   ObjGet(totals, stages[i].id) + ObjGetOrZero(counts, stages[i].id)),
            counts)

\* conveyorBelts.forEach(belt => ...) from belt i on; a TypeError raised by
\* calculateStageCounts leaves the loop and the method
RECURSIVE AggregateFrom(_, _, _, _)
AggregateFrom(field, belts, i, totals) ==
    IF i > Len(belts) THEN Return(totals)
    ELSE LET counts == calculateStageCounts(field, belts[i])
         IN IF counts.thrown THEN Throw
            ELSE AggregateFrom(field, belts, i + 1,
                    AddCounts(getBeltStages(field), 1, totals, counts.value))

\* the totals overwritten by each belt's counts instead of added to
RECURSIVE AggregateFromOverwrite(_, _, _, _)
AggregateFromOverwrite(field, belts, i, totals) ==
    IF i > Len(belts) THEN Return(totals)
    ELSE LET counts == calculateStageCounts(field, belts[i])
         IN IF counts.thrown THEN Throw
            ELSE AggregateFromOverwrite(field, belts, i + 1, counts.value)

aggregateStageCountsOverwrite(field, conveyorBelts) ==
    LET totals == ZeroCounts(getBeltStages(field), 1, << >>)
    IN IF conveyorBelts.t # "array" THEN Return(totals)
       ELSE AggregateFromOverwrite(field, conveyorBelts.items, 1, totals)

aggregateStageCounts(field, conveyorBelts) ==
    LET totals == ZeroCounts(getBeltStages(field), 1, << >>)
    IN IF conveyorBelts.t # "array" THEN Return(totals)
       ELSE AggregateFrom(field, conveyorBelts.items, 1, totals)

(***************************************************************************)
(* What the stage functions leave of their arguments.  calculateStageCounts *)
(* reads belt.bags_on_belt and bag.position and writes its own counts      *)
(* object only; getDominantStage reads Object.entries(counts);             *)
(* aggregateStageCounts hands each belt of the list to                     *)
(* calculateStageCounts and writes its own totals only.                    *)
(***************************************************************************)
\* the belt emptied, as a count that took the bags off the list would leave it
calculateStageCountsDrains(belt) ==
    IF BeltHasNoBagList(belt) THEN belt ELSE Belt(JSArray(<< >>))

calculateStageCountsLeaves(belt) == belt

getDominantStageLeaves(counts) == counts

aggregateStageCountsLeaves(conveyorBelts) ==
    IF conveyorBelts.t # "array" THEN conveyorBelts
    ELSE JSArray([ i \in 1..Len(conveyorBelts.items) |->
                     calculateStageCountsLeaves(conveyorBelts.items[i]) ])

(***************************************************************************)
(* Number arithmetic of the load percent: IEEE 754 binary64, as the        *)
(* ECMAScript operators / and * compute it.  A positive double is          *)
(* 0.b1 b2 ... b53 * 2^exp with b1 = 1.                                    *)
(***************************************************************************)
MantissaBits == 53

\* the MantissaBits bits of a number are held as three digits, hi mid lo, of
\* LimbBits bits each (hi of the HighBits that remain), so that every
\* intermediate product stays below 2^31; the number is
\* (hi * Limb^2 + mid * Limb + lo) * 2^(exp - MantissaBits), its first bit 1
LimbBits == 18
Limb == 2^LimbBits
HighBits == MantissaBits - 2 * LimbBits

DoubleZero == [zero |-> TRUE, exp |-> 0, hi |-> 0, mid |-> 0, lo |-> 0]
Double(exp, hi, mid, lo) == [zero |-> FALSE, exp |-> exp, hi |-> hi, mid |-> mid, lo |-> lo]

\* r, d, exp with c / n = (r / d) * 2^exp and 1/2 <= r / d < 1, for c > 0
RECURSIVE ScaleDown(_, _, _)
ScaleDown(c, d, exp) ==
    IF c < d THEN [r |-> c, d |-> d, exp |-> exp] ELSE ScaleDown(c, 2 * d, exp + 1)

RECURSIVE ScaleUp(_, _, _)
ScaleUp(r, d, exp) ==
    IF 2 * r >= d THEN [r |-> r, d |-> d, exp |-> exp] ELSE ScaleUp(2 * r, d, exp - 1)

\* the three digits shifted right by s bits (s <= LimbBits), and the bits
\* shifted out
ShiftRight(hi, mid, lo, s) ==
    [ hi |-> hi \div 2^s,
      mid |-> (mid \div 2^s) + (hi % 2^s) * 2^(LimbBits - s),
      lo |-> (lo \div 2^s) + (mid % 2^s) * 2^(LimbBits - s),
      out |-> lo % 2^s ]

\* the digits plus one unit in the last place
Increment(exp, m) ==
    IF m.lo + 1 < Limb THEN Double(exp, m.hi, m.mid, m.lo + 1)
    ELSE IF m.mid + 1 < Limb THEN Double(exp, m.hi, m.mid + 1, 0)
    ELSE IF m.hi + 1 < 2^HighBits THEN Double(exp, m.hi + 1, 0, 0)
    ELSE Double(exp + 1, 2^(HighBits - 1), 0, 0)

\* round to nearest, ties to even: m the first MantissaBits bits, guard the
\* bit after them, sticky whether anything follows the guard
RoundToNearestEven(exp, m, guard, sticky) ==
    IF guard = 1 /\ (sticky \/ m.lo % 2 = 1) THEN Increment(exp, m)
    ELSE Double(exp, m.hi, m.mid, m.lo)

\* c / n for integers c >= 0 and 1 <= n < 2^12: long division to
\* MantissaBits + 1 bits, then rounding
DoubleDivide(c, n) ==
    IF c = 0 THEN DoubleZero
    ELSE LET s == ScaleUp(ScaleDown(c, n, 0).r, ScaleDown(c, n, 0).d, ScaleDown(c, n, 0).exp)
             q1 == (s.r * Limb) \div s.d
             r1 == (s.r * Limb) % s.d
             q2 == (r1 * Limb) \div s.d
             r2 == (r1 * Limb) % s.d
             q3 == (r2 * Limb) \div s.d
             r3 == (r2 * Limb) % s.d
             m == ShiftRight(q1, q2, q3, 1)
         IN RoundToNearestEven(s.exp, m, m.out, r3 # 0)

\* x * 100: the exact product digit by digit, rounded to MantissaBits
DoubleTimes100(x) ==
    IF x.zero THEN DoubleZero
    ELSE LET p0 == x.lo * 100
             p1 == x.mid * 100 + p0 \div Limb
             p2 == x.hi * 100 + p1 \div Limb
             s == IF p2 >= 2^(HighBits + 6) THEN 7 ELSE 6
             m == ShiftRight(p2, p1 % Limb, p0 % Limb, s)
         IN RoundToNearestEven(x.exp + s, m, m.out \div 2^(s - 1),
                               m.out % 2^(s - 1) # 0)

\* Math.round(x) for 0 <= x < 2^(HighBits - 1): the nearest integer, a half
\* going up
MathRound(x) ==
    IF x.zero \/ x.exp < 0 THEN 0
    ELSE (x.hi \div 2^(HighBits - x.exp)) + ((x.hi \div 2^(HighBits - 1 - x.exp)) % 2)

(***************************************************************************)
(* generateStageTimelineHTML: what it computes for each stage of the flow  *)
(* (the count shown, the load percent, the flow state, the active mark);   *)
(* the empty sequence stands for the empty string.                         *)
(***************************************************************************)
Max(a, b) == IF a >= b THEN a ELSE b

\* Math.round((counts[stage.id] || 0) / totalBags * 100)
LoadPercent(count, totalBags) ==
    MathRound(DoubleTimes100(DoubleDivide(count, totalBags)))

\* counts[stage.id], undefined for a key the mapping lacks
CountOf(counts, key) ==
    IF ObjHas(counts, key) THEN JSNumber(ObjGet(counts, key)) ELSE JSUndefined

TimelineRows(field, belt, counts) ==
    LET stages == getBeltStages(field)
        bagCount == IF belt.t = "object" /\ belt.bags_on_belt.t = "array"
                    THEN Len(belt.bags_on_belt.items) ELSE 0
        totalBags == Max(1, bagCount)
        dominantStage == getDominantStage(CountsObject(counts))
    IN [ index \in 1..Len(stages) |->
           LET loadPercent == LoadPercent(ObjGetOrZero(counts, stages[index].id), totalBags)
           IN [ id |-> stages[index].id,
                bags |-> ObjGetOrZero(counts, stages[index].id),
                loadPercent |-> loadPercent,
                flowState |-> getStageFlowState(loadPercent,
                                  CountOf(counts, stages[index].id)),
                active |-> dominantStage = stages[index].id ] ]

generateStageTimelineHTML(field, belt) ==
    LET counts == calculateStageCounts(field, belt)
    IN IF Len(getBeltStages(field)) = 0 THEN Return(<< >>)
       ELSE IF counts.thrown THEN Throw
       ELSE Return(TimelineRows(field, belt, counts.value))

SP_TimelineRows(field, belt, counts) ==
    LET stages == SP_getBeltStages(field)
        bagCount == IF belt.t = "object" /\ belt.bags_on_belt.t = "array"
                    THEN Len(belt.bags_on_belt.items) ELSE 0
        totalBags == Max(1, bagCount)
        dominantStage == SP_getDominantStage(CountsObject(counts))
    IN [ index \in 1..Len(stages) |->
           LET loadPercent == LoadPercent(ObjGetOrZero(counts, stages[index].id), totalBags)
           IN [ id |-> stages[index].id,
                bags |-> ObjGetOrZero(counts, stages[index].id),
                loadPercent |-> loadPercent,
                flowState |-> SP_getStageFlowState(loadPercent,
                                  CountOf(counts, stages[index].id)),
                active |-> dominantStage = stages[index].id ] ]

SP_generateStageTimelineHTML(field, belt) ==
    LET counts == SP_calculateStageCounts(field, belt)
    IN IF Len(SP_getBeltStages(field)) = 0 THEN Return(<< >>)
       ELSE IF counts.thrown THEN Throw
       ELSE Return(SP_TimelineRows(field, belt, counts.value))

(***************************************************************************)
(* generateStageOverlayHTML: for each stage the width of its segment and   *)
(* the count shown; the empty sequence stands for the empty string.        *)
(***************************************************************************)
OverlayRows(stages, counts) ==
    [ index \in 1..Len(stages) |->
        [ id |-> stages[index].id,
          width |-> stages[index].end - stages[index].start,
          bags |-> ObjGetOrZero(counts, stages[index].id) ] ]

generateStageOverlayHTML(field, belt) ==
    LET counts == calculateStageCounts(field, belt)
    IN IF Len(getBeltStages(field)) = 0 THEN Return(<< >>)
       ELSE IF counts.thrown THEN Throw
       ELSE Return(OverlayRows(getBeltStages(field), counts.value))

SP_generateStageOverlayHTML(field, belt) ==
    LET counts == SP_calculateStageCounts(field, belt)
    IN IF Len(SP_getBeltStages(field)) = 0 THEN Return(<< >>)
       ELSE IF counts.thrown THEN Throw
       ELSE Return(OverlayRows(SP_getBeltStages(field), counts.value))

(***************************************************************************)
(* loadAllData (AirportDashboard).  An invocation runs to its first await, *)
(* and each later step of it runs when the promise it awaits settles;      *)
(* between two steps of one invocation the steps of others may run.  The   *)
(* invocations are numbered in the order they start.                       *)
(***************************************************************************)
\* this.conveyorData = null
NoSnapshot == [t |-> "null", load |-> 0]

\* the body of the live-conveyors response that invocation load received
Snapshot(load) == [t |-> "object", load |-> load]

\* an invocation: what started it, the promise it awaits ("returned" when
\* it has run to its end), and how its live-conveyors fetch settled
Load(trigger, pc, conveyor) == [trigger |-> trigger, pc |-> pc, conveyor |-> conveyor]

\* the dashboard-data response: data, data with a non-empty errors map,
\* data with an error field, or a fetch or a body that fails
DashboardResponses == {"data", "data.errors", "data.error", "rejected"}

\* the live-conveyors response: a snapshot, a body with an error field, or
\* a fetch or a body that fails
ConveyorResponses == {"ok", "error", "rejected"}

\* showLoading with the overlay left as it is
showLoadingKeeps(overlay, show) == overlay

\* showLoading, with the overlay present:
\* overlay.style.display = show ? 'flex' : 'none'
showLoading(overlay, show) == show

\* loadAllData: the renders made with a snapshot that has no error field
ConveyorRenders == << "renderConveyorSystem", "renderAIAlerts", "renderAIInsights" >>

\* loadAllData: the renders and calls made with either response
WidgetRenders ==
    << "renderPassengerFlow", "renderQueueStatus", "renderBaggageTracking",
       "renderFlightStatus", "renderSecurityStatus", "renderResourceUtilization",
       "renderStaffAvailability", "loadFacilitiesData", "updateLastUpdate" >>

\* the steps loadAllData makes after the live-conveyors response
RenderPlan(response) ==
    IF response = "ok" THEN ConveyorRenders \o WidgetRenders
    ELSE IF response = "error" THEN WidgetRenders
    ELSE << >>

\* how an invocation ended: whether it went through the catch, the step
\* that raised ("fetch" for a response that failed or carried an error
\* field, "none" without one), and the steps it completed
Run(load, caught, raised, renders) ==
    [load |-> load, caught |-> caught, raised |-> raised, renders |-> renders]
NoRun == Run(0, FALSE, "none", << >>)

\* the invocation i with its awaited promise and the outcome of its
\* live-conveyors fetch set
Advance(i, pc, conveyor) ==
    [loads EXCEPT ![i] = Load(loads[i].trigger, pc, conveyor)]

\* constructor: this.conveyorData = null, then this.init(), whose
\* loadAllData (loadInitialData in the StaffPortal) shows the overlay and
\* issues its first fetch
InitPolling ==
    /\ conveyorData = NoSnapshot
    /\ rendered = NoSnapshot
    /\ loading = TRUE
    /\ loads = IF self = "AirportDashboard"
               THEN << Load("init", "dashboard-data", "none") >> ELSE << >>
    /\ completed = << >>
    /\ lastRun = NoRun

(***************************************************************************)
(* StaffPortal: the snapshots by airport and renderConveyorSystem          *)
(***************************************************************************)
\* loadAllAirportsData: const airports = ['DEL', 'BLR', ...], of which the
\* first MaxAirports are loaded
AirportCodes == << "DEL", "BLR", "GOX", "PNY", "IXJ", "SXR" >>
Airports == SubSeq(AirportCodes, 1, MaxAirports)

\* constructor: this.currentAirport = null
NullAirport == "null"

\* this.conveyorData of the StaffPortal: null, or an object with a snapshot
\* under the code of every airport in airports
NoSnapshots == [t |-> "null", airports |-> {}]
Snapshots(airports) == [t |-> "object", airports |-> airports]

\* loadAirportData: if (!this.conveyorData) this.conveyorData = {};
\*                  this.conveyorData[airportCode] = conveyorData
StoreSnapshot(snapshots, airportCode) == Snapshots(snapshots.airports \cup {airportCode})

\* StaffPortal.renderConveyorSystem, with the elements of the page present:
\* if (!this.currentAirport || !this.conveyorData[this.currentAirport]) return;
\* reading a property of null raises a TypeError
SP_renderConveyorSystem(airport, snapshots) ==
    IF airport = NullAirport THEN "returned"
    ELSE IF snapshots.t = "null" THEN "TypeError"
    ELSE IF airport \notin snapshots.airports THEN "returned"
    ELSE "rendered"

\* renderCurrentAirportData: if (!this.currentAirport) return;
\*                           this.renderConveyorSystem(); ...
renderCurrentAirportData(airport, snapshots) ==
    IF airport = NullAirport THEN "returned" ELSE SP_renderConveyorSystem(airport, snapshots)

\* an invocation of loadAllAirportsData: what started it, the airport of
\* the list it is loading, and the fetch it awaits
SP_Load(trigger, airport, pc) == [trigger |-> trigger, airport |-> airport, pc |-> pc]

\* loadAirportData: the fetches of one airport, in the order they are awaited
AirportFetches == << "live-conveyors", "staff-availability", "complaints", "ai-insights" >>
AirportResponses == {"ok", "error", "rejected"}

\* the fetch awaited after the given one
NextFetch(pc) ==
    AirportFetches[1 + CHOOSE k \in 1..Len(AirportFetches) : AirportFetches[k] = pc]

(***************************************************************************)
(* handleDatasetRecovery and notifyDashboardErrors (AirportDashboard)      *)
(***************************************************************************)
\* constructor: this.datasetEndpoints
datasetEndpoints ==
    [ passenger_flow |-> "passenger-flow", queue_status |-> "queue-status",
      baggage_tracking |-> "baggage-tracking", flight_status |-> "flight-status",
      security_status |-> "security-status",
      resource_utilization |-> "resource-utilization",
      staff_availability |-> "staff-availability" ]

\* this.datasetEndpoints[key]
Endpoint(key) ==
    IF key \in DOMAIN datasetEndpoints THEN datasetEndpoints[key] ELSE "undefined"

\* the keys a dashboard-data response reports in its errors map: datasets
\* with an endpoint and one without
EndpointKeys == << "passenger_flow", "queue_status", "baggage_tracking", "flight_status" >>
ErrorKeyPool == { EndpointKeys[k] : k \in 1..MaxKeys } \cup {"weather"}

\* key.replace(/_/g, ' ')
Readable(key) ==
    CASE key = "passenger_flow" -> "passenger flow"
      [] key = "queue_status" -> "queue status"
      [] key = "baggage_tracking" -> "baggage tracking"
      [] key = "flight_status" -> "flight status"
      [] OTHER -> key

\* data.errors: absent, or an object with its keys in the order of Object.keys
NoErrors == [t |-> "undefined", keys |-> << >>]
Errors(keys) == [t |-> "object", keys |-> keys]

\* a value of data[key]: what the dashboard-data response carried, or the
\* body of a re-fetch (a dataset, a dataset with an error field, or null)
Original == [from |-> "dashboard-data", body |-> "dataset"]
Refetched(body) == [from |-> "re-fetch", body |-> body]

\* the data object: its datasets by key and its errors field
Data(values, errors) == [values |-> values, errors |-> errors]

\* the banner: class d-none set or not, and the keys named in its message
Hidden == [hidden |-> TRUE, message |-> << >>]
Shown(message) == [hidden |-> FALSE, message |-> message]

\* notifyDashboardErrors, with the banner's elements present
notifyDashboardErrors(errors) ==
    IF errors.t # "object" \/ errors.keys = << >> THEN Hidden
    ELSE Shown([k \in 1..Len(errors.keys) |-> Readable(errors.keys[k])])

\* delete data.errors[key]
DeleteKey(errors, key) ==
    Errors(SelectSeq(errors.keys, LAMBDA k : k # key))

\* the re-fetch of a key settles: a rejection is caught and changes nothing;
\* a body is stored under the key, and the key leaves the errors map when
\* the body has no error field; reading .error of a null body raises inside
\* the try, after the assignment
RefetchResponses == {"dataset", "error", "null", "rejected"}

\* a re-fetch whose failed dataset makes its key the only error
RefetchCompletesAlone(d, key, response) ==
    IF response = "rejected" THEN d
    ELSE Data([d.values EXCEPT ![key] = Refetched(response)],
              IF response = "dataset" THEN DeleteKey(d.errors, key) ELSE Errors(<< key >>))

\* a re-fetch that stores the body only when it has no error field
RefetchCompletesClean(d, key, response) ==
    IF response = "dataset"
    THEN Data([d.values EXCEPT ![key] = Refetched(response)], DeleteKey(d.errors, key))
    ELSE d

RefetchCompletes(d, key, response) ==
    IF response = "rejected" THEN d
    ELSE Data([d.values EXCEPT ![key] = Refetched(response)],
              IF response = "dataset" THEN DeleteKey(d.errors, key) ELSE d.errors)

\* the end of handleDatasetRecovery: delete data.errors when it is empty
Finish(d) ==
    IF d.errors.t = "object" /\ d.errors.keys = << >> THEN Data(d.values, NoErrors) ELSE d

\* no call of handleDatasetRecovery is looked at
InitRecovery ==
    /\ data = Data([k \in ErrorKeyPool |-> Original], NoErrors)
    /\ banner = Hidden
    /\ errorKeys = << >>
    /\ pending = {}
    /\ settled = << >>
    /\ recoveryPc = "idle"

(***************************************************************************)
(* The alerts widget: updateAlertsHeader, autoExpandAlerts and the global  *)
(* toggleWidgetContent (declared twice in the file, with the same body)    *)
(***************************************************************************)
\* the element ai-alerts-content: its style.display ("" when not set) and
\* whether its class list holds collapsed and expanded
Content(display, collapsed, expanded) ==
    [display |-> display, collapsed |-> collapsed, expanded |-> expanded]

\* toggleWidgetContent('ai-alerts') on the content: expand when
\* style.display is 'none' or the class collapsed is set, collapse
\* otherwise; collapsing changes the classes and leaves style.display
toggleWidgetContent(c) ==
    IF c.display = "none" \/ c.collapsed
    THEN Content("block", FALSE, TRUE)
    ELSE Content(c.display, TRUE, FALSE)

\* toggleWidgetContent('ai-alerts') on the chevron: rotated when expanding
toggleChevron(c, rotated) == c.display = "none" \/ c.collapsed

\* autoExpandAlerts on the content: if (content && content.style.display === 'none')
autoExpandAlerts(c) ==
    IF c.display = "none" THEN Content("block", FALSE, TRUE) ELSE c

\* autoExpandAlerts on the chevron
autoExpandChevron(c, rotated) == IF c.display = "none" THEN TRUE ELSE rotated

\* alert.priority.toLowerCase()
ToLowerCase(priority) ==
    CASE priority = "Critical" -> "critical"
      [] priority = "High" -> "high"
      [] OTHER -> priority

\* an alert of the snapshot: id, scope and priority
PanelAlert(id, scope, priority) ==
    [t |-> "object", id |-> id, scope |-> scope, priority |-> priority]

\* alertList.filter(alert => alert.priority.toLowerCase() === priority).length
CountPriority(alertList, priority) ==
    Cardinality({ i \in 1..Len(alertList) : ToLowerCase(alertList[i].priority) = priority })

\* reading toLowerCase of a priority that is undefined raises a TypeError
PriorityThrows(alertList) ==
    \E i \in 1..Len(alertList) : alertList[i].priority = "undefined"

\* the header as updateAlertsHeader writes it: the badges and has-alerts
Header(critical, high, total) ==
    [critical |-> critical, high |-> high, total |-> total, hasAlerts |-> total > 0]

\* updateAlertsHeader on the header, with its elements present
updateAlertsHeader(alertList) ==
    Header(CountPriority(alertList, "critical"), CountPriority(alertList, "high"),
           Len(alertList))

\* the widget before any render: collapsed by style.display = 'none', the
\* state autoExpandAlerts looks for
InitPanel ==
    /\ content = Content("none", FALSE, FALSE)
    /\ chevron = FALSE
    /\ header = Header(0, 0, 0)

(***************************************************************************)
(* animateConveyorBelts (both classes)                                     *)
(***************************************************************************)
\* a run of animateConveyorBelts that sets no timeout at its end
animateConveyorBeltsOnce(timeouts) == timeouts

\* animateConveyorBelts moves the bags and ends with
\* setTimeout(() => this.animateConveyorBelts(), ...): one more timeout pending
animateConveyorBelts(timeouts) == timeouts + 1

\* the instance as its constructor leaves it: no airport on display, no
\* snapshots, loadInitialData awaiting the first fetch of the first airport,
\* no animation started
InitPage ==
    /\ currentAirport = NullAirport
    /\ SP_conveyorData = NoSnapshots
    /\ SP_loads = IF self = "StaffPortal"
                  THEN << SP_Load("init", 1, "live-conveyors") >> ELSE << >>
    /\ SP_rendered = "none"
    /\ timers = 0
    /\ animated = 0
    /\ frames = 0

(***************************************************************************)
(* filterAlertsByScope (AirportDashboard only)                             *)
(***************************************************************************)
\* constructor: Array.isArray(config.alertScopes) && config.alertScopes.length
\*     ? config.alertScopes : ['all']
constructorAlertScopes(configured) ==
    IF configured.t = "array" /\ Len(configured.items) # 0
    THEN configured.items
    ELSE << "all" >>

\* an alert: an object with an id and a scope, the scope an array of scope
\* names, or undefined (no scope field), or a "string" (a truthy value
\* that is no array); or a null entry of the list
Alert(id, scope) == [t |-> "object", id |-> id, scope |-> scope]
NoAlert(id) == [t |-> "null", id |-> id, scope |-> JSNoArray]
ScopeArray(names) == [t |-> "array", items |-> names]
ScopeOther(t) == [t |-> t, items |-> << >>]

\* this.alertScopes.includes(scope)
Includes(array, x) == \E i \in 1..Len(array) : array[i] = x

\* the callback of alerts.filter
KeepsAlert(scopes, alert) ==
    IF alert.scope.t # "array" \/ Len(alert.scope.items) = 0
    THEN TRUE
    ELSE \E i \in 1..Len(alert.scope.items) :
            Includes(scopes, alert.scope.items[i]) \/ alert.scope.items[i] = "all"

\* the callback with every viewer scope required of the alert, not some
KeepsAlertEvery(scopes, alert) ==
    IF alert.scope.t # "array" \/ Len(alert.scope.items) = 0
    THEN TRUE
    ELSE \A i \in 1..Len(alert.scope.items) :
            Includes(scopes, alert.scope.items[i]) \/ alert.scope.items[i] = "all"

\* alerts.filter(...) from alert i on, kept the alerts kept so far; reading
\* alert.scope raises a TypeError on a null entry
RECURSIVE FilterFrom(_, _, _, _)
FilterFrom(scopes, alerts, i, kept) ==
    IF i > Len(alerts) THEN Return(kept)
    ELSE IF alerts[i].t \in {"null", "undefined"} THEN Throw
    ELSE FilterFrom(scopes, alerts, i + 1,
            IF KeepsAlert(scopes, alerts[i]) THEN Append(kept, alerts[i]) ELSE kept)

RECURSIVE FilterFromEvery(_, _, _, _)
FilterFromEvery(scopes, alerts, i, kept) ==
    IF i > Len(alerts) THEN Return(kept)
    ELSE IF alerts[i].t \in {"null", "undefined"} THEN Throw
    ELSE FilterFromEvery(scopes, alerts, i + 1,
            IF KeepsAlertEvery(scopes, alerts[i]) THEN Append(kept, alerts[i]) ELSE kept)

filterAlertsByScopeEvery(scopes, alerts) ==
    IF alerts.t # "array" \/ Len(alerts.items) = 0 THEN Return(<< >>)
    ELSE FilterFromEvery(scopes, alerts.items, 1, << >>)

filterAlertsByScope(scopes, alerts) ==
    IF alerts.t # "array" \/ Len(alerts.items) = 0 THEN Return(<< >>)
    ELSE FilterFrom(scopes, alerts.items, 1, << >>)

(***************************************************************************)
(* The inputs the operations are applied to.                               *)
(***************************************************************************)
Classes == {"AirportDashboard", "StaffPortal"}

\* positions handed to getStageForPosition: every multiple of 1/PosScale
\* from -MaxOut to 100 + MaxOut, and the values that are not numbers
NumericPositions ==
    { JSNumber(n) : n \in (0 - MaxOut * PosScale)..((100 + MaxOut) * PosScale) } \cup {JSNaN}
OtherPositions ==
    {JSUndefined, JSNull, JSTrue, JSFalse, JSNumericString(30 * PosScale), JSText, JSObject}
Positions == NumericPositions \cup OtherPositions

\* stage tables other than the constructor's, for the claims made of any table
TwoStages == << Stage("landside", 0, 50), Stage("airside", 50, 100) >>
GappedStages == << Stage("intake", 0, 40), Stage("outfeed", 60, 100) >>
StageTables ==
    { JSArray(ConstructorBeltStages), JSArray(TwoStages), JSArray(GappedStages),
      JSArray(<< >>), JSNoArray }

\* sequences over S of length at most n
SeqUpTo(S, n) == UNION { [1..k -> S] : k \in 0..n }

\* bags of a belt handed to calculateStageCounts
BagPositions ==
    { JSNumber(0 - MaxOut * PosScale), JSNumber(10 * PosScale), JSNumber(25 * PosScale),
      JSNumber(60 * PosScale), JSNumber(100 * PosScale), JSNaN, JSNull, JSUndefined }
Bags == { Bag(p) : p \in BagPositions } \cup {NoBag("null"), NoBag("number")}
NoBelts ==
    { NoBelt("null"), NoBelt("undefined"), NoBelt("string"),
      Belt(JSNoArray) }
Belts == { Belt(JSArray(b)) : b \in SeqUpTo(Bags, MaxBags) } \cup NoBelts

\* belts of a list handed to aggregateStageCounts
ListBags == { Bag(JSNumber(10 * PosScale)), Bag(JSNumber(100 * PosScale)), NoBag("null") }
ListBelts == { Belt(JSArray(b)) : b \in SeqUpTo(ListBags, MaxBags) } \cup NoBelts
ConveyorBelts == { JSArray(l) : l \in SeqUpTo(ListBelts, MaxBelts) } \cup {JSNoArray}

\* counts mappings handed to getDominantStage: one count up to MaxCount per
\* stage of the table, in the order of the table
CountsOver(stages) ==
    { [ i \in 1..Len(stages) |-> Entry(stages[i].id, c[i]) ] :
        c \in [1..Len(stages) -> 0..MaxCount] }
CountsArguments(stages) ==
    { CountsObject(e) : e \in CountsOver(stages) }
        \cup {CountsObject(<< >>), NoCounts("null"), NoCounts("undefined")}

LoadPercents == 0..100
CountArguments == { JSNumber(n) : n \in 0..MaxCount } \cup {JSUndefined}

\* belts handed to generateStageTimelineHTML: the belts above, and belts
\* of up to MaxRun bags, the first c of them in one stage, the others in
\* another
RunBelt(c, n) ==
    Belt(JSArray([ i \in 1..n |->
        IF i <= c THEN Bag(JSNumber(10 * PosScale)) ELSE Bag(JSNumber(60 * PosScale)) ]))
RunBelts == UNION { { RunBelt(c, n) : c \in 0..n } : n \in 1..MaxRun }
TimelineBelts == Belts \cup RunBelts

\* what window.dashboardConfig.alertScopes holds when the instance is made
ScopeNames == {"all", "terminalA", "terminalB"}
ConfiguredScopes ==
    { JSNoArray, JSArray(<< >>), JSArray(<< "all" >>), JSArray(<< "terminalA" >>),
      JSArray(<< "terminalB" >>), JSArray(<< "terminalA", "terminalB" >>) }

\* alert lists handed to filterAlertsByScope: the id of an alert is its
\* place in the list
AlertScopes ==
    { ScopeArray(n) : n \in SeqUpTo(ScopeNames, MaxScopeLen) }
        \cup {ScopeOther("undefined"), ScopeOther("string")}
AlertShapes == [t : {"object"}, scope : AlertScopes] \cup {[t |-> "null", scope |-> JSNoArray]}
AlertLists ==
    { JSArray([ i \in 1..Len(l) |->
                  IF l[i].t = "object" THEN Alert(i, l[i].scope) ELSE NoAlert(i) ]) :
        l \in SeqUpTo(AlertShapes, MaxAlerts) } \cup {JSNoArray}

(***************************************************************************)
(* The state machine: an instance with its stage table, and the call made  *)
(* on it with its arguments and its completion.  The stage functions read  *)
(* this.beltStages and their arguments and write no field, so a call made  *)
(* after other calls runs in the state the constructor left: each call is  *)
(* taken from that state.                                                  *)
(***************************************************************************)
\* constructor: this.beltStages = [...]
Init ==
    /\ beltStages = JSArray(ConstructorBeltStages)
    /\ alertScopes = constructorAlertScopes(JSNoArray)
    /\ self \in Classes
    /\ op = "constructor"
    /\ args = << >>
    /\ result = Return(NullId)
    /\ after = << >>
    /\ InitPolling
    /\ InitPage
    /\ InitRecovery
    /\ InitPanel

\* the instance with a stage table supplied from outside
InitConfig ==
    /\ beltStages \in StageTables
    /\ alertScopes = constructorAlertScopes(JSNoArray)
    /\ self \in Classes
    /\ op = "constructor"
    /\ args = << >>
    /\ result = Return(NullId)
    /\ after = << >>
    /\ InitPolling
    /\ InitPage
    /\ InitRecovery
    /\ InitPanel

GetStageForPosition ==
    /\ op = "constructor"
    /\ \E position \in Positions :
           /\ op' = "getStageForPosition"
           /\ args' = << position >>
           /\ after' = << position >>
           /\ result' = Return(IF self = "AirportDashboard"
                               THEN getStageForPosition(beltStages, position)
                               ELSE SP_getStageForPosition(beltStages, position))
           /\ UNCHANGED <<fields, polling, page>>

CalculateStageCounts ==
    /\ op = "constructor"
    /\ \E belt \in Belts :
           /\ op' = "calculateStageCounts"
           /\ args' = << belt >>
           /\ after' = << calculateStageCountsLeaves(belt) >>
           /\ result' = IF self = "AirportDashboard"
                        THEN calculateStageCounts(beltStages, belt)
                        ELSE SP_calculateStageCounts(beltStages, belt)
           /\ UNCHANGED <<fields, polling, page>>

GetStageFlowState ==
    /\ op = "constructor"
    /\ \E loadPercent \in LoadPercents, count \in CountArguments :
           /\ op' = "getStageFlowState"
           /\ args' = << loadPercent, count >>
           /\ after' = << loadPercent, count >>
           /\ result' = Return(IF self = "AirportDashboard"
                               THEN getStageFlowState(loadPercent, count)
                               ELSE SP_getStageFlowState(loadPercent, count))
           /\ UNCHANGED <<fields, polling, page>>

GetDominantStage ==
    /\ op = "constructor"
    /\ \E counts \in CountsArguments(getBeltStages(beltStages)) :
           /\ op' = "getDominantStage"
           /\ args' = << counts >>
           /\ after' = << getDominantStageLeaves(counts) >>
           /\ result' = Return(IF self = "AirportDashboard"
                               THEN getDominantStage(counts)
                               ELSE SP_getDominantStage(counts))
           /\ UNCHANGED <<fields, polling, page>>

AggregateStageCounts ==
    /\ op = "constructor"
    /\ self = "AirportDashboard"
    /\ \E conveyorBelts \in ConveyorBelts :
           /\ op' = "aggregateStageCounts"
           /\ args' = << conveyorBelts >>
           /\ after' = << aggregateStageCountsLeaves(conveyorBelts) >>
           /\ result' = aggregateStageCounts(beltStages, conveyorBelts)
           /\ UNCHANGED <<fields, polling, page>>

\* constructor, with the alert scopes of window.dashboardConfig
InitAlerts ==
    /\ beltStages = JSArray(ConstructorBeltStages)
    /\ \E configured \in ConfiguredScopes : alertScopes = constructorAlertScopes(configured)
    /\ self = "AirportDashboard"
    /\ op = "constructor"
    /\ args = << >>
    /\ result = Return(NullId)
    /\ after = << >>
    /\ InitPolling
    /\ InitPage
    /\ InitRecovery
    /\ InitPanel

FilterAlertsByScope ==
    /\ op = "constructor"
    /\ self = "AirportDashboard"
    /\ \E alerts \in AlertLists :
           /\ op' = "filterAlertsByScope"
           /\ args' = << alerts >>
           /\ after' = << alerts >>
           /\ result' = filterAlertsByScope(alertScopes, alerts)
           /\ UNCHANGED <<fields, polling, page>>

GenerateStageTimelineHTML ==
    /\ op = "constructor"
    /\ \E belt \in TimelineBelts :
           /\ op' = "generateStageTimelineHTML"
           /\ args' = << belt >>
           /\ after' = << calculateStageCountsLeaves(belt) >>
           /\ result' = IF self = "AirportDashboard"
                        THEN generateStageTimelineHTML(beltStages, belt)
                        ELSE SP_generateStageTimelineHTML(beltStages, belt)
           /\ UNCHANGED <<fields, polling, page>>

GenerateStageOverlayHTML ==
    /\ op = "constructor"
    /\ \E belt \in Belts :
           /\ op' = "generateStageOverlayHTML"
           /\ args' = << belt >>
           /\ after' = << calculateStageCountsLeaves(belt) >>
           /\ result' = IF self = "AirportDashboard"
                        THEN generateStageOverlayHTML(beltStages, belt)
                        ELSE SP_generateStageOverlayHTML(beltStages, belt)
           /\ UNCHANGED <<fields, polling, page>>

Next ==
    \/ GetStageForPosition
    \/ CalculateStageCounts
    \/ GetStageFlowState
    \/ GetDominantStage
    \/ AggregateStageCounts
    \/ GenerateStageTimelineHTML
    \/ GenerateStageOverlayHTML

Spec == Init /\ [][Next]_vars

NextAlerts == FilterAlertsByScope

SpecAlerts == InitAlerts /\ [][NextAlerts]_vars

SpecConfig == InitConfig /\ [][Next]_vars

\* loadAllData up to its first await: showLoading(true) and the fetch of
\* dashboard-data
loadAllData(trigger) ==
    /\ self = "AirportDashboard"
    /\ Len(loads) < MaxLoads
    /\ loading' = showLoading(loading, TRUE)
    /\ loads' = Append(loads, Load(trigger, "dashboard-data", "none"))
    /\ UNCHANGED <<conveyorData, rendered, completed, lastRun, fields, call, page>>

\* setupAutoRefresh: the callback of setInterval
IntervalTick == loadAllData("setInterval")

\* resolveAlert: window.dashboard.loadAllData().  (The refreshAllData of
\* line 1181 is not an entry: the file declares the function again at line
\* 2347, and that later declaration, which reads window.staffPortal only,
\* is the one the name is bound to.)
ResolveAlert == loadAllData("resolveAlert")

\* the dashboard-data fetch of an invocation settles: with data the
\* invocation goes on to handleDatasetRecovery, which returns at once
\* without an errors map (the live-conveyors fetch is issued) and awaits its
\* re-fetches with one; an error field or a failure goes to the catch, which
\* hides the overlay
DashboardDataSettles ==
    \E i \in 1..Len(loads), response \in DashboardResponses :
        /\ loads[i].pc = "dashboard-data"
        /\ IF response = "data"
           THEN /\ loads' = Advance(i, "live-conveyors", "none")
                /\ UNCHANGED <<loading, completed, lastRun>>
           ELSE IF response = "data.errors"
           THEN /\ loads' = Advance(i, "handleDatasetRecovery", "none")
                /\ UNCHANGED <<loading, completed, lastRun>>
           ELSE /\ loads' = Advance(i, "returned", "none")
                /\ loading' = showLoading(loading, FALSE)
                /\ completed' = Append(completed, i)
                /\ lastRun' = Run(i, TRUE, "fetch", << >>)
        /\ UNCHANGED <<conveyorData, rendered, fields, call, page>>

\* the re-fetches of handleDatasetRecovery have all settled (each catches
\* its own failure): the live-conveyors fetch is issued
RecoverySettles ==
    \E i \in 1..Len(loads) :
        /\ loads[i].pc = "handleDatasetRecovery"
        /\ loads' = Advance(i, "live-conveyors", "none")
        /\ UNCHANGED <<conveyorData, rendered, loading, completed, lastRun, fields, call, page>>

\* the live-conveyors fetch of an invocation settles, and the invocation
\* runs to its end: a body without an error field is stored and rendered,
\* one with an error field is not; the other widgets are rendered and the
\* overlay hidden.  A fetch that fails, or a step that raises (step raising
\* of the plan, 0 for none), goes to the catch, which hides the overlay; the
\* steps before it have been made.  renderConveyorSystem, with the elements
\* of the page present, ends with this.animateConveyorBelts().
LiveConveyorsSettles ==
    \E i \in 1..Len(loads), response \in ConveyorResponses :
        \E raising \in 0..Len(RenderPlan(response)) :
            LET plan == RenderPlan(response)
                renders == IF raising = 0 THEN plan ELSE SubSeq(plan, 1, raising - 1)
                shown == \E k \in 1..Len(renders) : renders[k] = "renderConveyorSystem"
            IN /\ loads[i].pc = "live-conveyors"
               /\ self = "AirportDashboard"
               /\ conveyorData' = IF response = "ok" THEN Snapshot(i) ELSE conveyorData
               /\ IF shown
                  THEN /\ rendered' = Snapshot(i)
                       /\ timers' = animateConveyorBelts(timers)
                       /\ animated' = animated + 1
                  ELSE UNCHANGED <<rendered, timers, animated>>
               /\ loads' = Advance(i, "returned", response)
               /\ loading' = showLoading(loading, FALSE)
               /\ completed' = Append(completed, i)
               /\ lastRun' = Run(i, response = "rejected" \/ raising # 0,
                                 IF response = "rejected" THEN "fetch"
                                 ELSE IF raising = 0 THEN "none" ELSE plan[raising],
                                 renders)
               /\ UNCHANGED <<fields, call, portal, frames, recovery, panel>>

InitDashboard == Init /\ self = "AirportDashboard"

\* a timeout set by animateConveyorBelts fires and runs it again
AnimationTimeout ==
    /\ timers > 0
    /\ frames < MaxFrames
    /\ timers' = animateConveyorBelts(timers - 1)
    /\ frames' = frames + 1
    /\ UNCHANGED <<animated, fields, call, polling, portal, recovery, panel>>

NextDashboard ==
    \/ IntervalTick
    \/ ResolveAlert
    \/ DashboardDataSettles
    \/ RecoverySettles
    \/ LiveConveyorsSettles

SpecDashboard == InitDashboard /\ [][NextDashboard]_vars

\* the fetches an invocation awaits settle in the end
SpecDashboardFair ==
    /\ SpecDashboard
    /\ WF_vars(DashboardDataSettles)
    /\ WF_vars(RecoverySettles)
    /\ WF_vars(LiveConveyorsSettles)

(***************************************************************************)
(* StaffPortal: loadInitialData, loadAllAirportsData and the refreshes     *)
(***************************************************************************)
\* a call of renderConveyorSystem ends: a render that reaches
\* this.animateConveyorBelts() starts a chain of timeouts
Renders(outcome) ==
    /\ SP_rendered' = outcome
    /\ IF outcome = "rendered"
       THEN /\ timers' = animateConveyorBelts(timers)
            /\ animated' = animated + 1
       ELSE UNCHANGED <<timers, animated>>

\* the callback of setInterval, the global refreshAllData and
\* resolveStaffAlert: loadAllAirportsData() issues its first fetch, and
\* renderCurrentAirportData() runs before any fetch has settled
SP_Refresh(trigger) ==
    /\ self = "StaffPortal"
    /\ Len(SP_loads) < 1 + MaxRefreshes
    /\ SP_loads' = Append(SP_loads, SP_Load(trigger, 1, "live-conveyors"))
    /\ Renders(renderCurrentAirportData(currentAirport, SP_conveyorData))
    /\ UNCHANGED <<currentAirport, SP_conveyorData, frames, fields, call, polling, recovery, panel>>

SP_IntervalTick == SP_Refresh("setInterval")
RefreshAllData == SP_Refresh("refreshAllData")
ResolveStaffAlert == SP_Refresh("resolveStaffAlert")

\* loadTabData('#conveyor'): this.renderConveyorSystem()
LoadTabData ==
    /\ self = "StaffPortal"
    /\ timers < MaxChains
    /\ Renders(SP_renderConveyorSystem(currentAirport, SP_conveyorData))
    /\ UNCHANGED <<currentAirport, SP_conveyorData, SP_loads, frames, fields, call,
                   polling, recovery, panel>>

\* a fetch of loadAirportData settles.  A live-conveyors body without an
\* error field is stored under the airport's code; a rejection goes to the
\* catch of loadAirportData, which ends that airport.  After the last
\* airport loadAllAirportsData sets currentAirport to 'DEL' and calls
\* renderCurrentAirportData; a TypeError raised there rejects the
\* invocation, which loadInitialData catches (hiding the overlay) and the
\* refreshes leave unhandled.  loadInitialData goes on to loadNotifications.
AirportFetchSettles ==
    \E i \in 1..Len(SP_loads), response \in AirportResponses :
        LET l == SP_loads[i]
            snapshots == IF l.pc = "live-conveyors" /\ response = "ok"
                    THEN StoreSnapshot(SP_conveyorData, Airports[l.airport])
                    ELSE SP_conveyorData
            airportDone == response = "rejected" \/ l.pc = AirportFetches[Len(AirportFetches)]
            outcome == renderCurrentAirportData(Airports[1], snapshots)
        IN /\ l.pc \notin {"notifications", "returned"}
           /\ SP_conveyorData' = snapshots
           /\ IF ~airportDone
              THEN /\ SP_loads' = [SP_loads EXCEPT ![i].pc = NextFetch(l.pc)]
                   /\ UNCHANGED <<currentAirport, SP_rendered, timers, animated, loading>>
              ELSE IF l.airport < Len(Airports)
              THEN /\ SP_loads' = [SP_loads EXCEPT ![i] =
                                      SP_Load(l.trigger, l.airport + 1, AirportFetches[1])]
                   /\ UNCHANGED <<currentAirport, SP_rendered, timers, animated, loading>>
              ELSE /\ currentAirport' = Airports[1]
                   /\ Renders(outcome)
                   /\ IF l.trigger = "init" /\ outcome # "TypeError"
                      THEN /\ SP_loads' = [SP_loads EXCEPT ![i].pc = "notifications"]
                           /\ UNCHANGED loading
                      ELSE /\ SP_loads' = [SP_loads EXCEPT ![i].pc = "returned"]
                           /\ loading' = IF l.trigger = "init" THEN FALSE ELSE loading
           /\ UNCHANGED <<conveyorData, rendered, loads, completed, lastRun, frames,
                          fields, call, recovery, panel>>

\* loadInitialData: loadNotifications settles, this.showLoading(false)
NotificationsSettle ==
    \E i \in 1..Len(SP_loads) :
        /\ SP_loads[i].pc = "notifications"
        /\ SP_loads' = [SP_loads EXCEPT ![i].pc = "returned"]
        /\ loading' = FALSE
        /\ UNCHANGED <<conveyorData, rendered, loads, completed, lastRun, currentAirport,
                       SP_conveyorData, SP_rendered, animation, fields, call, recovery, panel>>

InitPortal == Init /\ self = "StaffPortal"

NextPortal ==
    \/ SP_IntervalTick
    \/ RefreshAllData
    \/ ResolveStaffAlert
    \/ LoadTabData
    \/ AirportFetchSettles
    \/ NotificationsSettle

SpecPortal == InitPortal /\ [][NextPortal]_vars

(***************************************************************************)
(* A call of handleDatasetRecovery step by step                            *)
(***************************************************************************)
\* the sequences over S without a repeated element
Distinct(S) ==
    { q \in SeqUpTo(S, Cardinality(S)) : \A a, b \in 1..Len(q) : a # b => q[a] # q[b] }

\* what handleDatasetRecovery is handed: data without an errors field, or
\* with an errors map over some keys, in some order
RecoveryInputs ==
    { Data([k \in ErrorKeyPool |-> Original], e) :
        e \in {NoErrors} \cup { Errors(q) : q \in Distinct(ErrorKeyPool) } }

\* loadAllData has called handleDatasetRecovery(data); the banner is as an
\* earlier cycle left it
InitHandleDatasetRecovery ==
    /\ beltStages = JSArray(ConstructorBeltStages)
    /\ alertScopes = constructorAlertScopes(JSNoArray)
    /\ self = "AirportDashboard"
    /\ op = "constructor"
    /\ args = << >>
    /\ result = Return(NullId)
    /\ after = << >>
    /\ InitPolling
    /\ InitPage
    /\ InitPanel
    /\ data \in RecoveryInputs
    /\ banner \in {Hidden, Shown(<< "security status" >>)}
    /\ errorKeys = << >>
    /\ pending = {}
    /\ settled = << >>
    /\ recoveryPc = "called"

\* handleDatasetRecovery up to its await: without an errors map, or with an
\* empty one, it hides the banner and returns; otherwise the callback of
\* every key runs up to its fetch (a key without an endpoint returns at
\* once) and the call awaits them all
HandleDatasetRecovery ==
    /\ recoveryPc = "called"
    /\ IF data.errors.t # "object" \/ data.errors.keys = << >>
       THEN /\ data' = Finish(data)
            /\ banner' = notifyDashboardErrors(NoErrors)
            /\ recoveryPc' = "returned"
            /\ UNCHANGED <<errorKeys, pending>>
       ELSE /\ errorKeys' = data.errors.keys
            /\ pending' = { data.errors.keys[k] : k \in
                              { k \in 1..Len(data.errors.keys) :
                                  Endpoint(data.errors.keys[k]) # "undefined" } }
            /\ recoveryPc' = "awaiting"
            /\ UNCHANGED <<data, banner>>
    /\ UNCHANGED <<settled, fields, call, polling, portal, animation, panel>>

\* one of the re-fetches settles
RefetchSettles ==
    /\ recoveryPc = "awaiting"
    /\ \E key \in pending, response \in RefetchResponses :
           /\ data' = RefetchCompletes(data, key, response)
           /\ pending' = pending \ {key}
           /\ settled' = Append(settled, [key |-> key, response |-> response])
    /\ UNCHANGED <<banner, errorKeys, recoveryPc, fields, call, polling, portal, animation, panel>>

\* Promise.all has settled: the errors field is deleted and the banner
\* hidden when no key is left, the banner shown otherwise
HandleDatasetRecoveryReturns ==
    /\ recoveryPc = "awaiting"
    /\ pending = {}
    /\ data' = Finish(data)
    /\ banner' = notifyDashboardErrors(data.errors)
    /\ recoveryPc' = "returned"
    /\ UNCHANGED <<errorKeys, pending, settled, fields, call, polling, portal, animation, panel>>

NextRecovery ==
    \/ HandleDatasetRecovery
    \/ RefetchSettles
    \/ HandleDatasetRecoveryReturns

SpecRecovery == InitHandleDatasetRecovery /\ [][NextRecovery]_vars

(***************************************************************************)
(* renderAIAlerts and the clicks on the header of the alerts widget        *)
(***************************************************************************)
\* the ai_alerts of a snapshot: the id of an alert is its place in the list
Priorities == {"critical", "Critical", "high", "undefined"}
PanelScopes == {ScopeArray(<< "all" >>), ScopeArray(<< "terminalB" >>)}
PanelShapes == [scope : PanelScopes, priority : Priorities]
PanelAlertLists ==
    { JSArray([ i \in 1..Len(l) |-> PanelAlert(i, l[i].scope, l[i].priority) ]) :
        l \in SeqUpTo(PanelShapes, MaxAlerts) } \cup {JSNoArray}

\* the widget as the page may have it when the instance is made: collapsed
\* by its style, or expanded with or without a style and a class
Contents == { Content("none", FALSE, FALSE), Content("", FALSE, FALSE),
              Content("block", FALSE, TRUE) }

InitAlertsPanel ==
    /\ beltStages = JSArray(ConstructorBeltStages)
    /\ \E configured \in {JSNoArray, JSArray(<< "terminalA" >>)} :
           alertScopes = constructorAlertScopes(configured)
    /\ self = "AirportDashboard"
    /\ op = "constructor"
    /\ args = << >>
    /\ result = Return(NullId)
    /\ after = << >>
    /\ InitPolling
    /\ InitPage
    /\ InitRecovery
    /\ content \in Contents
    /\ chevron \in BOOLEAN
    /\ header = Header(0, 0, 0)

\* a click on the header: toggleWidgetContent('ai-alerts')
ToggleWidgetContent ==
    /\ op' = "toggleWidgetContent"
    /\ args' = << "ai-alerts" >>
    /\ after' = args'
    /\ result' = Return(NullId)
    /\ content' = toggleWidgetContent(content)
    /\ chevron' = toggleChevron(content, chevron)
    /\ UNCHANGED <<header, fields, polling, portal, animation, recovery>>

\* renderAIAlerts, with the elements of the widget present: the alerts of
\* the snapshot are filtered by scope, updateAlertsHeader counts them by
\* priority (a priority that is undefined raises before anything is
\* written) and calls autoExpandAlerts when one is critical
RenderAIAlerts ==
    \E alerts \in PanelAlertLists :
        LET filtered == filterAlertsByScope(alertScopes, alerts)
            raises == PriorityThrows(filtered.value)
        IN /\ op' = "renderAIAlerts"
           /\ args' = << alerts >>
           /\ after' = << alerts >>
           /\ result' = IF raises THEN Throw ELSE filtered
           /\ IF raises THEN UNCHANGED <<content, chevron, header>>
              ELSE /\ header' = updateAlertsHeader(filtered.value)
                   /\ IF CountPriority(filtered.value, "critical") > 0
                      THEN /\ content' = autoExpandAlerts(content)
                           /\ chevron' = autoExpandChevron(content, chevron)
                      ELSE UNCHANGED <<content, chevron>>
           /\ UNCHANGED <<fields, polling, portal, animation, recovery>>

NextAlertsPanel == ToggleWidgetContent \/ RenderAIAlerts

SpecAlertsPanel == InitAlertsPanel /\ [][NextAlertsPanel]_vars

\* either page, the instance being an AirportDashboard or a StaffPortal,
\* with the timeouts of its animation
NextPage == NextDashboard \/ NextPortal \/ AnimationTimeout
SpecPage == Init /\ [][NextPage]_vars

(***************************************************************************)
(* Properties.  The helpers below state what a claim expects without       *)
(* going through the operators that model the code.                        *)
(***************************************************************************)
TheStages == getBeltStages(beltStages)

IsNumberIn(p, lo, hi) == p.t = "number" /\ lo * PosScale <= p.n /\ p.n < hi * PosScale

\* the stages whose half-open interval holds the number p
StagesHolding(stages, p) ==
    { i \in 1..Len(stages) :
        stages[i].start * PosScale <= p.n /\ p.n < stages[i].end * PosScale }

LastStageId(stages) == stages[Len(stages)].id

\* C1: with the constructor's table, every position 0 <= p < 100 gets the id
\* of the one stage whose interval [start, end) holds it; 25, 50 and 75
\* belong to the stage they start, and the position just below 25 to checking
C1_HalfOpenIntervals ==
    (op = "getStageForPosition" /\ IsNumberIn(args[1], 0, 100)) =>
        LET holding == StagesHolding(ConstructorBeltStages, args[1])
        IN /\ ~result.thrown
           /\ Cardinality(holding) = 1
           /\ \A i \in holding : result.value = ConstructorBeltStages[i].id
           /\ (args[1].n = 25 * PosScale => result.value = "sorting")
           /\ (args[1].n = 25 * PosScale - 1 => result.value = "checking")
           /\ (args[1].n = 50 * PosScale => result.value = "security")
           /\ (args[1].n = 75 * PosScale => result.value = "boarding")

C1_Witness ==
    /\ op = "getStageForPosition"
    /\ args = << JSNumber(25 * PosScale) >>
    /\ result = Return("sorting")

\* C2: a position below 0, at or above 100, NaN or not a number gets the id
\* of the last stage
C2_FallbackToLast ==
    ( /\ op = "getStageForPosition"
      /\ Len(TheStages) > 0
      /\ \/ args[1].t \notin {"number", "numericString"}
         \/ args[1].t = "number" /\ ~IsNumberIn(args[1], 0, 100) ) =>
        result = Return(LastStageId(TheStages))

\* C3 as claimed: getStageForPosition(-5) is "checking"
C3_NegativeIsChecking ==
    (op = "getStageForPosition" /\ args = << JSNumber((0 - 5) * PosScale) >>) =>
        result = Return("checking")

\* C3 as amended: getStageForPosition(-5) is "boarding", the last stage
C3_NegativeIsBoarding ==
    (op = "getStageForPosition" /\ args = << JSNumber((0 - 5) * PosScale) >>) =>
        result = Return("boarding")

C3_Witness ==
    /\ op = "getStageForPosition"
    /\ args = << JSNumber((0 - 5) * PosScale) >>
    /\ result = Return("boarding")

\* C4: with a non-empty table, every position in [0,100] gets the id of a
\* stage of the table, never null
C4_Coverage ==
    ( /\ op = "getStageForPosition"
      /\ Len(TheStages) > 0
      /\ args[1].t = "number" /\ 0 <= args[1].n /\ args[1].n <= 100 * PosScale ) =>
        /\ ~result.thrown
        /\ result.value # NullId
        /\ \E i \in 1..Len(TheStages) : result.value = TheStages[i].id

\* a position in the gap of a table that leaves one
C4_Witness ==
    /\ op = "getStageForPosition"
    /\ beltStages = JSArray(GappedStages)
    /\ args = << JSNumber(50 * PosScale) >>
    /\ result = Return("outfeed")

RECURSIVE SumVals(_, _)
SumVals(entries, i) ==
    IF i > Len(entries) THEN 0 ELSE entries[i].val + SumVals(entries, i + 1)

\* C5: the counts of a belt of N bags with numeric positions sum to N; the
\* counts returned for any belt sum to no more than the bags on the belt
C5_Conservation ==
    op = "calculateStageCounts" =>
        LET belt == args[1]
            hasList == belt.t = "object" /\ belt.bags_on_belt.t = "array"
            bags == belt.bags_on_belt.items
        IN /\ ( /\ hasList
                /\ \A i \in 1..Len(bags) :
                      bags[i].t = "object" /\ bags[i].position.t \in {"number", "NaN"} ) =>
                    ~result.thrown /\ SumVals(result.value, 1) = Len(bags)
           /\ ~result.thrown =>
                    SumVals(result.value, 1) <= (IF hasList THEN Len(bags) ELSE 0)

\* two bags, both outside [0,100), both counted
C5_Witness ==
    /\ op = "calculateStageCounts"
    /\ args = << Belt(JSArray(<< Bag(JSNumber(100 * PosScale)),
                                 Bag(JSNumber((0 - MaxOut) * PosScale)) >>)) >>
    /\ ~result.thrown
    /\ SumVals(result.value, 1) = 2

\* C6: the mapping calculateStageCounts or aggregateStageCounts returns has
\* one key per stage of the table, in the order of the table, and every
\* value is a non-negative integer
C6_OneKeyPerStage ==
    (op \in {"calculateStageCounts", "aggregateStageCounts"} /\ ~result.thrown) =>
        /\ Len(result.value) = Len(TheStages)
        /\ \A i \in 1..Len(TheStages) :
              /\ result.value[i].key = TheStages[i].id
              /\ result.value[i].val \in Nat

C6_Witness ==
    /\ op = "calculateStageCounts"
    /\ beltStages = JSArray(ConstructorBeltStages)
    /\ args = << NoBelt("null") >>
    /\ result = Return(<< Entry("checking", 0), Entry("sorting", 0),
                          Entry("security", 0), Entry("boarding", 0) >>)

\* C7: getDominantStage returns a stage of maximal count, the first such in
\* the order of the mapping; null for an empty or absent mapping
C7_DominantFirstMaximum ==
    op = "getDominantStage" =>
        LET entries == IF args[1].t = "object" THEN args[1].entries ELSE << >>
        IN /\ ~result.thrown
           /\ Len(entries) = 0 => result.value = NullId
           /\ Len(entries) > 0 =>
                \E i \in 1..Len(entries) :
                    /\ result.value = entries[i].key
                    /\ \A j \in 1..Len(entries) : entries[j].val <= entries[i].val
                    /\ \A j \in 1..(i - 1) : entries[j].val < entries[i].val

C7_Witness ==
    /\ op = "getDominantStage"
    /\ args = << CountsObject(<< Entry("checking", 3), Entry("sorting", 3),
                                 Entry("security", 1), Entry("boarding", 0) >>) >>
    /\ result = Return("checking")

\* C8: getStageFlowState is Idle for a count of 0, else Congested from 60,
\* else Flowing from 30, else Clearing
C8_FlowStateTable ==
    op = "getStageFlowState" =>
        LET loadPercent == args[1]
            zero == args[2] = JSNumber(0)
        IN /\ ~result.thrown
           /\ zero => result.value = "Idle"
           /\ (~zero /\ loadPercent >= 60) => result.value = "Congested"
           /\ (~zero /\ loadPercent >= 30 /\ loadPercent < 60) => result.value = "Flowing"
           /\ (~zero /\ loadPercent < 30) => result.value = "Clearing"

\* no bags in a stage at a load of 60 or more: Idle, not Congested
C8_Witness ==
    /\ op = "getStageFlowState"
    /\ args = << 60, JSNumber(0) >>
    /\ result = Return("Idle")

RECURSIVE SumOver(_, _, _)
\* the sum of f[i] for i from lo to hi
SumOver(f, lo, hi) == IF lo > hi THEN 0 ELSE f[lo] + SumOver(f, lo + 1, hi)

AllZero(stages) == [ k \in 1..Len(stages) |-> Entry(stages[k].id, 0) ]

\* C9: aggregateStageCounts of a list of belts is the element-wise sum of
\* calculateStageCounts of its belts (where each of these returns); of an
\* empty list or of no list it is the all-zero mapping
C9_AggregationAdditivity ==
    op = "aggregateStageCounts" =>
        LET belts == args[1].items
            perBelt == [ i \in 1..Len(belts) |-> calculateStageCounts(beltStages, belts[i]) ]
            sum == [ k \in 1..Len(TheStages) |->
                       Entry(TheStages[k].id,
                             SumOver([ i \in 1..Len(belts) |->
                                         ObjGetOrZero(perBelt[i].value, TheStages[k].id) ],
                                     1, Len(belts))) ]
        IN /\ (args[1].t # "array" \/ Len(belts) = 0) => result = Return(AllZero(TheStages))
           /\ (args[1].t = "array" /\ \A i \in 1..Len(belts) : ~perBelt[i].thrown) =>
                  result = Return(sum)

C9_Witness ==
    /\ op = "aggregateStageCounts"
    /\ args = << JSArray(<< Belt(JSArray(<< Bag(JSNumber(10 * PosScale)) >>)),
                            Belt(JSArray(<< Bag(JSNumber(10 * PosScale)),
                                            Bag(JSNumber(100 * PosScale)) >>)) >>) >>
    /\ result = Return(<< Entry("checking", 2), Entry("sorting", 0),
                          Entry("security", 0), Entry("boarding", 1) >>)

\* a belt that is absent or has no list of bags
IsMalformedBelt(belt) == belt.t # "object" \/ belt.bags_on_belt.t # "array"

\* the stage a bag at the number p is expected in: the first stage whose
\* interval holds p, the last stage when none does
ExpectedStage(stages, p) ==
    LET holding == StagesHolding(stages, p)
    IN IF holding = {} THEN LastStageId(stages)
       ELSE stages[CHOOSE i \in holding : \A j \in holding : i <= j].id

\* C10: in aggregateStageCounts a belt that is absent or has no list of bags
\* adds nothing, and the other belts of the list are counted in full: the
\* total of a stage is the number of bags of the well-formed belts that are
\* in that stage (stated of the lists whose bags are all objects)
C10_MalformedBeltsAddNothing ==
    ( /\ op = "aggregateStageCounts"
      /\ args[1].t = "array"
      /\ \A i \in 1..Len(args[1].items) :
            \/ IsMalformedBelt(args[1].items[i])
            \/ \A j \in 1..Len(args[1].items[i].bags_on_belt.items) :
                  args[1].items[i].bags_on_belt.items[j].t = "object" ) =>
        LET belts == args[1].items
            bagsIn(id) ==
                { ij \in (1..Len(belts)) \X (1..MaxBags) :
                    /\ ~IsMalformedBelt(belts[ij[1]])
                    /\ ij[2] <= Len(belts[ij[1]].bags_on_belt.items)
                    /\ ExpectedStage(TheStages,
                           belts[ij[1]].bags_on_belt.items[ij[2]].position) = id }
        IN /\ ~result.thrown
           /\ Len(result.value) = Len(TheStages)
           /\ \A k \in 1..Len(TheStages) :
                 result.value[k] = Entry(TheStages[k].id, Cardinality(bagsIn(TheStages[k].id)))

\* an absent belt first, and the belt after it counted
C10_Witness ==
    /\ op = "aggregateStageCounts"
    /\ args = << JSArray(<< NoBelt("null"),
                            Belt(JSArray(<< Bag(JSNumber(10 * PosScale)) >>)) >>) >>
    /\ result = Return(<< Entry("checking", 1), Entry("sorting", 0),
                          Entry("security", 0), Entry("boarding", 0) >>)

\* C11: calculateStageCounts and aggregateStageCounts never raise, whatever
\* the shape of the bags, and always return a mapping with one count per stage
C11_NeverRaises ==
    op \in {"calculateStageCounts", "aggregateStageCounts"} =>
        /\ ~result.thrown
        /\ \A i \in 1..Len(TheStages) : ObjHas(result.value, TheStages[i].id)

RangeOf(seq) == { seq[i] : i \in 1..Len(seq) }

\* the rule of visibility as the claim words it
VisibleByRule(alert) ==
    \/ alert.scope.t # "array"
    \/ alert.scope.items = << >>
    \/ "all" \in RangeOf(alert.scope.items)
    \/ RangeOf(alert.scope.items) \cap RangeOf(alertScopes) # {}

\* C12: filterAlertsByScope keeps exactly the alerts whose scope is absent,
\* no list or empty, or holds "all", or holds a scope of the viewer; the
\* kept alerts stay in their order (stated of lists of alert objects)
C12_ScopeRule ==
    ( /\ op = "filterAlertsByScope"
      /\ args[1].t = "array"
      /\ \A i \in 1..Len(args[1].items) : args[1].items[i].t = "object" ) =>
        LET alerts == args[1].items
            kept == result.value
        IN /\ ~result.thrown
           /\ \A i \in 1..Len(alerts) :
                 VisibleByRule(alerts[i]) <=> (\E j \in 1..Len(kept) : kept[j] = alerts[i])
           /\ \A j \in 1..Len(kept) : kept[j] = alerts[kept[j].id]
           /\ \A j \in 1..(Len(kept) - 1) : kept[j].id < kept[j + 1].id

\* one scope of the alert is the viewer's, the other is not: kept; the
\* alert before it has none of the viewer's: removed
C12_Witness ==
    /\ op = "filterAlertsByScope"
    /\ alertScopes = << "terminalA" >>
    /\ args = << JSArray(<< Alert(1, ScopeArray(<< "terminalB" >>)),
                            Alert(2, ScopeArray(<< "terminalB", "terminalA" >>)) >>) >>
    /\ result = Return(<< Alert(2, ScopeArray(<< "terminalB", "terminalA" >>)) >>)

\* C13: an alert of scope ["terminalA"] is kept for a viewer of scopes
\* ["all"] and for one of ["terminalA"], removed for one of ["terminalB"];
\* an alert without a scope is kept for every viewer
C13_ScopeExamples ==
    op = "filterAlertsByScope" =>
        /\ args = << JSArray(<< Alert(1, ScopeArray(<< "terminalA" >>)) >>) >> =>
              /\ alertScopes = << "all" >> => result = Return(args[1].items)
              /\ alertScopes = << "terminalA" >> => result = Return(args[1].items)
              /\ alertScopes = << "terminalB" >> => result = Return(<< >>)
        /\ args = << JSArray(<< Alert(1, ScopeOther("undefined")) >>) >> =>
              result = Return(args[1].items)


\* a belt that is absent, carries no list of bags, or carries an empty one
HasNoBags(belt) == IsMalformedBelt(belt) \/ belt.bags_on_belt.items = << >>

\* C16: for a belt that is absent or has zero bags calculateStageCounts
\* returns the all-zero mapping, and every stage of the timeline has load
\* percent 0 and flow state Idle
C16_EmptyBelt ==
    /\ (op = "calculateStageCounts" /\ HasNoBags(args[1])) =>
          result = Return(AllZero(TheStages))
    /\ (op = "generateStageTimelineHTML" /\ HasNoBags(args[1])) =>
          /\ ~result.thrown
          /\ Len(result.value) = Len(TheStages)
          /\ \A k \in 1..Len(TheStages) :
                /\ result.value[k].id = TheStages[k].id
                /\ result.value[k].loadPercent = 0
                /\ result.value[k].flowState = "Idle"

\* the timeline of a belt that is null
C16_Witness ==
    /\ op = "generateStageTimelineHTML"
    /\ args = << NoBelt("null") >>
    /\ ~result.thrown
    /\ \A k \in 1..Len(result.value) : result.value[k].flowState = "Idle"

\* count * 100 / n rounded to the nearest integer, a half going up
RoundHalfUp(count, n) == (200 * count + n) \div (2 * n)

\* C17: the load percent the timeline shows for a stage is
\* round(count * 100 / max(1, bags on the belt)) with halves rounded up, an
\* integer from 0 to 100, for every belt and also for one without bags
C17_LoadPercentRounding ==
    (op = "generateStageTimelineHTML" /\ ~result.thrown) =>
        LET belt == args[1]
            n == IF HasNoBags(belt) THEN 1 ELSE Len(belt.bags_on_belt.items)
        IN \A k \in 1..Len(result.value) :
              /\ result.value[k].loadPercent = RoundHalfUp(result.value[k].bags, n)
              /\ result.value[k].loadPercent \in 0..100

\* the orders the n entries of a list can be put in
Orders(n) ==
    { p \in [1..n -> 1..n] : \A i, j \in 1..n : i # j => p[i] # p[j] }

\* C18: calculateStageCounts does not depend on the order of the bags: the
\* belt with its bags_on_belt in any other order gets the same counts
C18_OrderIndependent ==
    (op = "calculateStageCounts" /\ ~BeltHasNoBagList(args[1])) =>
        LET bags == args[1].bags_on_belt.items
        IN \A p \in Orders(Len(bags)) :
              LET permuted == Belt(JSArray([ i \in 1..Len(bags) |-> bags[p[i]] ]))
              IN result = IF self = "AirportDashboard"
                          THEN calculateStageCounts(beltStages, permuted)
                          ELSE SP_calculateStageCounts(beltStages, permuted)

\* two bags of different stages, counted one each
C18_Witness ==
    /\ op = "calculateStageCounts"
    /\ args = << Belt(JSArray(<< Bag(JSNumber(60 * PosScale)),
                                 Bag(JSNumber(10 * PosScale)) >>)) >>
    /\ result = Return(<< Entry("checking", 1), Entry("sorting", 0),
                          Entry("security", 1), Entry("boarding", 0) >>)

\* the table is contiguous: it starts at 0, ends at 100, and each stage
\* starts where the one before it ends
Contiguous(stages) ==
    /\ Len(stages) > 0
    /\ stages[1].start = 0
    /\ stages[Len(stages)].end = 100
    /\ \A i \in 2..Len(stages) : stages[i].start = stages[i - 1].end

\* C20: in every reachable state of both front ends the stage table is the
\* one the constructor set, and it is contiguous from 0 to 100
C20_StageTableConstant ==
    /\ beltStages = JSArray(ConstructorBeltStages)
    /\ Contiguous(TheStages)
    /\ \A i \in 1..Len(TheStages) : TheStages[i].start < TheStages[i].end

\* the StaffPortal after a call that read the table
C20_Witness ==
    /\ self = "StaffPortal"
    /\ op = "generateStageTimelineHTML"
    /\ ~result.thrown
    /\ Len(result.value) = Len(ConstructorBeltStages)
    /\ beltStages.items = ConstructorBeltStages

Returned(i) == loads[i].pc = "returned"

\* C14: when two invocations of loadAllData are in flight at once, the
\* result of the one that started earlier is not stored or rendered after
\* the later one has produced its snapshot: once both have returned,
\* conveyorData and the rendered conveyor widget are of the later one (or of
\* one started after it)
C14_StaleResultDiscarded ==
    \A i, j \in 1..Len(loads) :
        (i < j /\ Returned(i) /\ Returned(j) /\ loads[j].conveyor = "ok") =>
            /\ conveyorData.load >= j
            /\ rendered.load >= j

\* C15: after every completed cycle of loadAllData the stored conveyor
\* snapshot is the one fetched in that cycle and nothing of an earlier
\* cycle is kept, also when the live-conveyors response of the cycle carries
\* an error field or the fetch fails
C15_ReplaceEntirely ==
    completed # << >> =>
        LET last == completed[Len(completed)]
        IN /\ loads[last].conveyor = "ok" => conveyorData = Snapshot(last)
           /\ conveyorData.t = "object" => conveyorData.load = last

StageOperations ==
    { "getStageForPosition", "calculateStageCounts", "getDominantStage",
      "aggregateStageCounts", "generateStageTimelineHTML", "generateStageOverlayHTML" }

EmptyTable == beltStages.t # "array" \/ beltStages.items = << >>

\* C21: with an empty stage table getStageForPosition returns null for every
\* position, calculateStageCounts returns the empty mapping (stated of the
\* belts whose entries can be read: none is null or undefined), and the
\* overlay and the timeline generators return the empty string
C21_EmptyStageTable ==
    EmptyTable =>
        /\ op = "getStageForPosition" => result = Return(NullId)
        /\ ( /\ op = "calculateStageCounts"
             /\ \/ BeltHasNoBagList(args[1])
                \/ \A i \in 1..Len(args[1].bags_on_belt.items) :
                      ~ReadPositionThrows(args[1].bags_on_belt.items[i]) ) =>
              result = Return(<< >>)
        /\ op \in {"generateStageOverlayHTML", "generateStageTimelineHTML"} =>
              result = Return(<< >>)

\* a belt of two bags counted with the empty table
C21_Witness ==
    /\ beltStages = JSArray(<< >>)
    /\ op = "calculateStageCounts"
    /\ args = << Belt(JSArray(<< Bag(JSNumber(10 * PosScale)),
                                 Bag(JSNumber(60 * PosScale)) >>)) >>
    /\ result = Return(<< >>)

\* C22: the two copies of the stage logic agree: for every position, belt,
\* counts mapping and (loadPercent, count) pair the AirportDashboard's
\* getStageForPosition, calculateStageCounts, getDominantStage and
\* getStageFlowState give what the StaffPortal's give
C22_CopiesAgree ==
    /\ op = "getStageForPosition" =>
          getStageForPosition(beltStages, args[1]) = SP_getStageForPosition(beltStages, args[1])
    /\ op = "calculateStageCounts" =>
          calculateStageCounts(beltStages, args[1]) = SP_calculateStageCounts(beltStages, args[1])
    /\ op = "getDominantStage" =>
          getDominantStage(args[1]) = SP_getDominantStage(args[1])
    /\ op = "getStageFlowState" =>
          getStageFlowState(args[1], args[2]) = SP_getStageFlowState(args[1], args[2])

\* the StaffPortal counted a belt and got what the AirportDashboard gets
C22_Witness ==
    /\ self = "StaffPortal"
    /\ op = "calculateStageCounts"
    /\ args = << Belt(JSArray(<< Bag(JSNumber(10 * PosScale)), Bag(JSNaN) >>)) >>
    /\ result = calculateStageCounts(beltStages, args[1])
    /\ ~result.thrown

\* the belt carries a list of bags and every bag is an object whose position
\* is a number
HasNumericPositions(belt) ==
    /\ ~IsMalformedBelt(belt)
    /\ \A i \in 1..Len(belt.bags_on_belt.items) :
          /\ belt.bags_on_belt.items[i].t = "object"
          /\ belt.bags_on_belt.items[i].position.t = "number"

\* the rows of a timeline that have the given flow state, and the active ones
RowsInState(rows, state) == { i \in 1..Len(rows) : rows[i].flowState = state }
ActiveRows(rows) == { i \in 1..Len(rows) : rows[i].active }

\* C29: in the timeline of a belt whose bag positions are numbers at most
\* one stage is Congested, and a Congested stage is the active one
C29_OneCongested ==
    (op = "generateStageTimelineHTML" /\ HasNumericPositions(args[1])) =>
        /\ ~result.thrown
        /\ Cardinality(RowsInState(result.value, "Congested")) <= 1
        /\ RowsInState(result.value, "Congested") \subseteq ActiveRows(result.value)

\* a belt of three bags out of five in one stage: that stage is Congested
\* and active, the other is not
C29_Witness ==
    /\ op = "generateStageTimelineHTML"
    /\ args = << RunBelt(3, 5) >>
    /\ beltStages = JSArray(ConstructorBeltStages)
    /\ ~result.thrown
    /\ Cardinality(RowsInState(result.value, "Congested")) = 1
    /\ RowsInState(result.value, "Congested") = ActiveRows(result.value)
    /\ RowsInState(result.value, "Flowing") # {}

\* C30: with a non-empty stage table a timeline marks exactly one stage as
\* active; for a belt that is absent or has no bags it is the first stage
\* of the table, and that stage is Idle
C30_OneActive ==
    (op = "generateStageTimelineHTML" /\ ~result.thrown /\ Len(TheStages) > 0) =>
        /\ Cardinality(ActiveRows(result.value)) = 1
        /\ HasNoBags(args[1]) =>
              /\ ActiveRows(result.value) = {1}
              /\ result.value[1].id = TheStages[1].id
              /\ result.value[1].flowState = "Idle"

\* the timeline of a belt whose list of bags is empty
C30_Witness ==
    /\ op = "generateStageTimelineHTML"
    /\ args = << Belt(JSArray(<< >>)) >>
    /\ Len(TheStages) > 1
    /\ ~result.thrown
    /\ ActiveRows(result.value) = {1}
    /\ result.value[1].flowState = "Idle"

\* the StaffPortal holds no snapshot for the airport on display
NoSnapshotForCurrentAirport ==
    \/ currentAirport = NullAirport
    \/ SP_conveyorData.t = "null"
    \/ currentAirport \notin SP_conveyorData.airports

\* C24: when no conveyor snapshot exists for the current airport, the
\* StaffPortal's renderConveyorSystem (called directly or from
\* renderCurrentAirportData) has returned without rendering and without
\* raising, also with currentAirport 'DEL' and conveyorData still null
C24_ReturnsWithoutSnapshot ==
    (SP_rendered # "none" /\ NoSnapshotForCurrentAirport) => SP_rendered = "returned"

\* the load that has just completed, if one has
JustCompleted == IF Len(completed') > Len(completed) THEN completed'[Len(completed')] ELSE 0

\* C28: every renderConveyorSystem that reaches the animation step starts a
\* chain of animateConveyorBelts timeouts that re-arms itself and is never
\* cancelled: the pending chains never decrease, they are as many as the
\* renders that reached the animation step, and a poll that renders its
\* snapshot adds one
C28_ChainsAccumulate ==
    /\ [](timers = animated)
    /\ [][ /\ timers' >= timers
           /\ animated' # animated => timers' = timers + 1
           /\ (JustCompleted # 0 /\ rendered' = Snapshot(JustCompleted)) =>
                 timers' = timers + 1 ]_vars

\* two renders have started a chain each, and a timeout has fired and
\* re-armed its chain
C28_Witness ==
    /\ animated = 2
    /\ timers = 2
    /\ frames > 0

\* every step loadAllData can make after the live-conveyors response
AllRenders == ConveyorRenders \o WidgetRenders

\* the steps of a sequence, as a set
StepsOf(renders) == { renders[k] : k \in 1..Len(renders) }

\* the step and the steps after it in the order loadAllData makes them
FromStep(step) ==
    { AllRenders[m] : m \in { m \in 1..Len(AllRenders) :
                                \E k \in 1..m : AllRenders[k] = step } }

\* C27: every invocation of loadAllData shows the loading overlay when it
\* starts and, its fetches settling, runs to its end, where it hides the
\* overlay: on success, on a dashboard-data response with an error field, on
\* a fetch that fails and on a render that raises.  An invocation that ends
\* in the catch has made no step from the one that raised on, and has left
\* conveyorData as it was unless it had replaced it before the raise
C27_OverlayHiddenAgain ==
    /\ loading = TRUE
    /\ [][Len(loads') > Len(loads) => loading' = TRUE]_vars
    /\ \A i \in 1..MaxLoads :
          [](Len(loads) >= i => <>(Len(loads) >= i /\ loads[i].pc = "returned"))
    /\ [][ JustCompleted # 0 =>
             /\ loading' = FALSE
             /\ lastRun'.load = JustCompleted
             /\ lastRun'.caught =>
                   /\ StepsOf(lastRun'.renders) \cap FromStep(lastRun'.raised) = {}
                   /\ lastRun'.raised = "fetch" => lastRun'.renders = << >>
                   /\ \/ conveyorData' = conveyorData
                      \/ /\ conveyorData' = Snapshot(JustCompleted)
                         /\ lastRun'.raised \in StepsOf(AllRenders) ]_vars

\* an invocation whose renderAIAlerts raised has ended: the overlay is
\* hidden, its snapshot is stored and shown, and no other widget was rendered
C27_Witness ==
    /\ lastRun.caught
    /\ lastRun.raised = "renderAIAlerts"
    /\ lastRun.renders = << "renderConveyorSystem" >>
    /\ conveyorData = Snapshot(lastRun.load)
    /\ loads[lastRun.load].pc = "returned"
    /\ ~loading

\* the keys of a sequence, as a set
KeysOf(keys) == { keys[k] : k \in 1..Len(keys) }

\* how the re-fetch of a key settled ("none" for a key without an endpoint)
ResponseOf(key) ==
    IF \E k \in 1..Len(settled) : settled[k].key = key
    THEN settled[CHOOSE k \in 1..Len(settled) : settled[k].key = key].response
    ELSE "none"

\* the keys of errorKeys that were not recovered: no endpoint, a re-fetch
\* that failed, or a body that is null or carries an error field
Unrecovered ==
    { key \in KeysOf(errorKeys) : ResponseOf(key) \in {"none", "rejected", "error", "null"} }

\* C25: when handleDatasetRecovery returns for data with a non-empty errors
\* map, data.errors holds exactly the keys that were not recovered, in their
\* order; it is absent and the banner hidden exactly when there is none, and
\* the banner is shown otherwise; every key whose re-fetch returned a body
\* has its dataset replaced by that body
C25_ErrorsAreUnrecovered ==
    (recoveryPc = "returned" /\ errorKeys # << >>) =>
        /\ data.errors.t = "undefined" <=> Unrecovered = {}
        /\ banner.hidden <=> Unrecovered = {}
        /\ data.errors.keys = SelectSeq(errorKeys, LAMBDA k : k \in Unrecovered)
        /\ banner = notifyDashboardErrors(data.errors)
        /\ \A key \in KeysOf(errorKeys) :
              data.values[key] =
                  IF ResponseOf(key) \in {"dataset", "error", "null"}
                  THEN Refetched(ResponseOf(key)) ELSE Original

\* three keys, of which one has no endpoint, one was recovered and one came
\* back with an error field
C25_Witness ==
    /\ recoveryPc = "returned"
    /\ errorKeys = << "weather", "passenger_flow", "queue_status" >>
    /\ ResponseOf("passenger_flow") = "dataset"
    /\ ResponseOf("queue_status") = "error"
    /\ data.errors = Errors(<< "weather", "queue_status" >>)
    /\ banner = Shown(<< "weather", "queue status" >>)

\* the re-fetches settling in the order of errorKeys, from key k on
RECURSIVE InOrder(_, _)
InOrder(d, k) ==
    IF k > Len(errorKeys) THEN d
    ELSE IF ResponseOf(errorKeys[k]) = "none" THEN InOrder(d, k + 1)
    ELSE InOrder(RefetchCompletes(d, errorKeys[k], ResponseOf(errorKeys[k])), k + 1)

\* the data object handleDatasetRecovery was handed
Handed == Data([k \in ErrorKeyPool |-> Original], Errors(errorKeys))

\* C26: what handleDatasetRecovery returns, the data object with its errors
\* map and the banner, does not depend on the order in which the re-fetches
\* settle: it is what they give when they settle in the order of errorKeys
C26_OrderOfRefetches ==
    (recoveryPc = "returned" /\ errorKeys # << >>) =>
        /\ data = Finish(InOrder(Handed, 1))
        /\ banner = notifyDashboardErrors(InOrder(Handed, 1).errors)

\* two re-fetches that settled against the order of errorKeys, both with an
\* error field
C26_Witness ==
    /\ recoveryPc = "returned"
    /\ errorKeys = << "passenger_flow", "queue_status" >>
    /\ settled = << [key |-> "queue_status", response |-> "error"],
                    [key |-> "passenger_flow", response |-> "error"] >>

\* the widget shows its content: style.display is not 'none' and the class
\* collapsed is not set (what toggleWidgetContent takes for expanded)
IsExpanded == content.display # "none" /\ ~content.collapsed

\* C23: after a renderAIAlerts whose scope-filtered list holds an alert of
\* priority critical the alerts panel is expanded, whatever clicks on its
\* header went before
C23_AutoExpand ==
    (op = "renderAIAlerts" /\ ~result.thrown /\ CountPriority(result.value, "critical") > 0) =>
        IsExpanded
=============================================================================
